---- MODULE Spec2Model ----
(***************************************************************************)
(* A model of the transaction-extraction pipeline of innovest's           *)
(* email_parser package: the parser chain (CashAppParser,                 *)
(* GenericPaymentParser), the single-account run aggregator               *)
(* (TransactionProcessor._process_email_list), the OAuth credential       *)
(* lifecycle (EmailIntegrationManager / OAuthTokenManager) and the        *)
(* multi-account orchestrator (MultiAccountEmailClient,                   *)
(* MultiAccountTransactionProcessor).                                     *)
(*                                                                         *)
(* Text is modelled as sequences of tokens (words); "\n" is the line      *)
(* break token.  A regular expression of the source becomes an operator   *)
(* that finds the same match on the token sequence.  The message space    *)
(* holds no 'Payment between' block and no forwarded-message marker, so   *)
(* the branches of the source that need them are not modelled.            *)
(***************************************************************************)
EXTENDS Integers, Sequences, FiniteSets, TLC

VARIABLES
    msg,          \* SpecParse: the message handed to the parser chain
    parser,       \* SpecParse: the parser find_parser_for_email returned
    parsed,       \* SpecParse: what parse_transaction returned
    stage,        \* SpecParse: "new" | "found" | "parsed"
    emails,       \* SpecList: the list handed to _process_email_list
    pos,          \* SpecList: index of the next message of the loop
    results,      \* SpecList: the results dict
    seen_ids,     \* SpecList: the transaction ids seen in this run
    store,        \* the rows of api.email_integrations, by id
    now,          \* the clock, in minutes
    integration,  \* SpecRefresh: the in-memory EmailIntegration
    configured,   \* SpecRefresh: GOOGLE_CLIENT_ID and GOOGLE_CLIENT_SECRET are set
    ret,          \* SpecRefresh: what refresh_oauth_token_if_needed returned last
    call,         \* SpecRefresh: the calls made so far, what each was given and did
    run,          \* Spec: the number of runs started, the messages retrieved so far
    pc,           \* Spec: where the current run stands
    integrations, \* Spec: the EmailIntegration objects of the current run
    cur,          \* Spec: index of the integration being processed
    runres,       \* Spec: the results dictionary of the current run
    log,          \* Spec: per integration visited in this run, what was done
    prevFailed,   \* Spec: ids whose refresh failed in the previous run
    _connection,  \* SpecSession: EmailClient._connection, "none" or "imap"
    imap,         \* SpecSession: what the IMAP server saw: connections, logouts, \Seen
    entry_point,  \* SpecSession: the entry point that is running
    todo,         \* SpecSession: the message numbers the operation has still to fetch
    yielded,      \* SpecSession: the message numbers the operation yielded
    cpc,          \* SpecSession: where the session stands
    table,        \* SpecSink: the rows of staging.pay_transactions
    sink_calls,   \* SpecSink: the calls made so far, what each was given and did
    boxes,        \* SpecBatch: the mailbox of each integration on the target day
    accounts,     \* SpecBatch: the active OAuth integrations
    bpos,         \* SpecBatch: index of the next integration of the loop
    all_results,  \* SpecBatch: the summary batch_daily_sync builds
    searched,     \* SpecBatch: the mailbox searches made, and for whom
    matching,     \* SpecLimit: the number of emails of the mailbox that match the sender
    limit,        \* SpecLimit: the limit of the request, 0 when 0 or absent
    endpoint,     \* SpecLimit: the endpoint that was called
    fetched,      \* SpecLimit: the number of emails retrieved
    mailbox,      \* SpecSearch: the messages of the mailbox, oldest first
    search,       \* SpecSearch: the retrieval call made: what it sent and what it yielded
    normalized    \* SpecNormalize: the timestamps the Normalizer was given and what it chose

parseVars == <<msg, parser, parsed, stage>>

listVars == <<emails, pos, results, seen_ids>>

refreshVars == <<integration, configured, ret, call>>

runVars == <<run, pc, integrations, cur, runres, log, prevFailed>>

clientVars == <<_connection, imap, entry_point, todo, yielded, cpc>>

sinkVars == <<table, sink_calls>>

batchVars == <<boxes, accounts, bpos, all_results, searched>>

limitVars == <<matching, limit, endpoint, fetched>>

searchVars == <<mailbox, search>>

normVars == <<normalized>>

ioVars == <<clientVars, sinkVars, batchVars, limitVars, searchVars, normVars>>

coreVars == <<parseVars, listVars, store, now, refreshVars, runVars>>

vars == <<parseVars, listVars, store, now, refreshVars, runVars, ioVars>>

(***************************************************************************)
(* Sequence helpers                                                        *)
(***************************************************************************)
Min(S) == CHOOSE x \in S : \A y \in S : x <= y

Max(S) == CHOOSE x \in S : \A y \in S : x >= y

\* index of the first element of s at or after position from that is in Set, 0 if none
FirstIn(s, from, Set) ==
    LET hits == {i \in from..Len(s) : s[i] \in Set}
    IN  IF hits = {} THEN 0 ELSE Min(hits)

\* the tokens of s from position i to the end
From(s, i) == IF i > Len(s) THEN <<>> ELSE SubSeq(s, i, Len(s))

\* the longest prefix of s whose tokens are all in Set
TakeWhile(s, Set) ==
    LET stop == {i \in 1..Len(s) : s[i] \notin Set}
    IN  IF stop = {} THEN s ELSE SubSeq(s, 1, Min(stop) - 1)

\* s without its leading tokens that are in Set
DropWhile(s, Set) == From(s, Len(TakeWhile(s, Set)) + 1)

\* s without its trailing tokens that are in Set
RTrim(s, Set) ==
    LET keep == {i \in 1..Len(s) : s[i] \notin Set}
    IN  IF keep = {} THEN <<>> ELSE SubSeq(s, 1, Max(keep))

Contains(s, tok) == \E i \in 1..Len(s) : s[i] = tok

(***************************************************************************)
(* Text: tokens and their spelling                                         *)
(***************************************************************************)
NL == "\n"

\* the lower-case form of the capitalised tokens (re.IGNORECASE, str.lower)
LowerOf ==
    [t \in {"You", "Payment", "Transaction", "Get", "Hello", "Venmo", "Unknown"} |->
        CASE t = "You" -> "you"
          [] t = "Payment" -> "payment"
          [] t = "Transaction" -> "transaction"
          [] t = "Get" -> "get"
          [] t = "Hello" -> "hello"
          [] t = "Venmo" -> "venmo"
          [] t = "Unknown" -> "unknown"]

Low(t) == IF t \in DOMAIN LowerOf THEN LowerOf[t] ELSE t

LowSeq(s) == [i \in 1..Len(s) |-> Low(s[i])]

\* tokens spelled with letters, dots, apostrophes and hyphens only: [A-Za-z.'-]+
AlphaToks ==
    {"You", "you", "received", "from", "Jane", "Smith", "David", "Payment",
     "notification", "Transaction", "number", "Hello", "world", "Get", "up",
     "to", "bonus", "paid", "total", "Venmo", "transfer", "Bob", "Jones",
     "cash", "payments", "bob", "tification", "Unknown"}

\* alphabetic tokens of fewer than two letters (none in this vocabulary)
OneLetterToks == {}

\* alphabetic tokens of at most two letters
ShortToks == {"up", "to"}

\* the digits of a "$<number>" token, as written in the message
AmountText ==
    [t \in {"$123.45", "$1,234.56", "$0.00"} |->
        CASE t = "$123.45" -> <<"1", "2", "3", ".", "4", "5">>
          [] t = "$1,234.56" -> <<"1", ",", "2", "3", "4", ".", "5", "6">>
          [] t = "$0.00" -> <<"0", ".", "0", "0">>]

AmountToks == DOMAIN AmountText

DigitVal ==
    [c \in {"0", "1", "2", "3", "4", "5", "6"} |->
        CASE c = "0" -> 0 [] c = "1" -> 1 [] c = "2" -> 2 [] c = "3" -> 3
          [] c = "4" -> 4 [] c = "5" -> 5 [] c = "6" -> 6]

\* tokens shaped '#D-<id>' (regex #D[-A-Za-z0-9]+)
HashDToks == {"#D-AAA", "#D-BBB"}

\* a 36-character 8-4-4-4-12 hexadecimal token
UuidTok == "123e4567-e89b-12d3-a456-426614174000"

\* a receipt URL 'https://cash.app/payments/<id>/receipt' and the id in it
PaymentsUrlId == [t \in {"https://cash.app/payments/123e4567-e89b-12d3-a456-426614174000/receipt"} |-> UuidTok]

IsUuid(t) == t = UuidTok

\* _clean_name and the label regex never see these inside a word
PunctToks == {":", "-"}

(***************************************************************************)
(* float(): the value of an amount text, in cents                          *)
(***************************************************************************)
RECURSIVE DigitsVal(_)
DigitsVal(ds) ==
    IF ds = <<>> THEN 0
    ELSE 10 * DigitsVal(SubSeq(ds, 1, Len(ds) - 1)) + DigitVal[ds[Len(ds)]]

\* str.replace(',', ''): the characters of cs that are not commas
RECURSIVE StripCommas(_)
StripCommas(cs) ==
    IF cs = <<>> THEN <<>>
    ELSE IF Head(cs) = "," THEN StripCommas(Tail(cs))
    ELSE <<Head(cs)>> \o StripCommas(Tail(cs))

\* float(amount_str) of a text with at most two decimals, in cents
FloatCents(cs) ==
    LET dot  == FirstIn(cs, 1, {"."})
        ip   == IF dot = 0 THEN cs ELSE SubSeq(cs, 1, dot - 1)
        fp   == IF dot = 0 THEN <<>> ELSE From(cs, dot + 1)
        frac == IF Len(fp) = 0 THEN 0
                ELSE IF Len(fp) = 1 THEN 10 * DigitsVal(fp)
                ELSE DigitsVal(SubSeq(fp, 1, 2))
    IN  100 * DigitsVal(ip) + frac

(***************************************************************************)
(* Lines, names and headers                                                *)
(***************************************************************************)
\* body + " " + subject
Content(body, subject) == body \o subject

\* body + "\n" + subject
Raw(body, subject) == body \o <<NL>> \o subject

\* index of the last token of the line that holds position i
LineEnd(s, i) ==
    LET nls == {k \in i..Len(s) : s[k] = NL}
    IN  IF nls = {} THEN Len(s) ELSE Min(nls) - 1

\* index of the first token of the line that holds position i
LineStart(s, i) ==
    LET nls == {k \in 1..(i - 1) : s[k] = NL}
    IN  IF nls = {} THEN 1 ELSE Max(nls) + 1

\* str.strip() of a text: no line break at either end
Strip(s) == RTrim(DropWhile(s, {NL}), {NL})

\* str.splitlines()
RECURSIVE SplitLines(_)
SplitLines(s) ==
    IF s = <<>> THEN <<>>
    ELSE LET k == FirstIn(s, 1, {NL})
         IN  IF k = 0 THEN <<s>>
             ELSE <<SubSeq(s, 1, k - 1)>> \o SplitLines(From(s, k + 1))

\* what re.sub(r"[^\w\s\.'-]", ' ', token) leaves of a token that has such characters
CleanTokOf ==
    [t \in {"$123.45", "$1,234.56", "$0.00", ":", "#D-AAA", "#D-BBB"} |->
        CASE t = "$123.45" -> <<"123.45">>
          [] t = "$1,234.56" -> <<"1", "234.56">>
          [] t = "$0.00" -> <<"0.00">>
          [] t = ":" -> <<>>
          [] t = "#D-AAA" -> <<"D-AAA">>
          [] t = "#D-BBB" -> <<"D-BBB">>]

RECURSIVE CleanToks(_)
CleanToks(s) ==
    IF s = <<>> THEN <<>>
    ELSE (IF Head(s) \in DOMAIN CleanTokOf THEN CleanTokOf[Head(s)] ELSE <<Head(s)>>)
         \o CleanToks(Tail(s))

IsBreak(t) == t = NL \/ t = "-"

NotBreak(t) == ~IsBreak(t)

\* CashAppParser._clean_name: the last line of a multi-line capture is cut,
\* the other line breaks and free-standing dashes become one space, characters
\* outside [\w\s.'-] are blanked
_clean_name(name) ==
    LET s1  == Strip(name)
        nls == {k \in 1..Len(s1) : s1[k] = NL}
        s2  == IF nls = {} THEN s1 ELSE Strip(SubSeq(s1, 1, Max(nls) - 1))
    IN  CleanToks(SelectSeq(s2, NotBreak))

\* len(name) <= 2
Short(name) == name = <<>> \/ (Len(name) = 1 /\ name[1] \in ShortToks)

\* CashAppParser._is_valid_name
_is_valid_name(name) ==
    /\ name # <<>>
    /\ \E i \in 1..Len(name) : name[i] \in AlphaToks \ OneLetterToks

\* the local part of an address with dots and underscores turned into spaces
LocalPart ==
    [a \in {"cash@square.com", "payments@venmo.com", "bob@x.com"} |->
        CASE a = "cash@square.com" -> <<"cash">>
          [] a = "payments@venmo.com" -> <<"payments">>
          [] a = "bob@x.com" -> <<"bob">>]

\* an absent header: email_message.get(h) or ''
NoHeader == [display |-> <<>>, addr |-> ""]

\* CashAppParser._parse_display_name_from_header; <<>> is None
_parse_display_name_from_header(h) ==
    IF h = NoHeader THEN <<>>
    ELSE IF _is_valid_name(h.display) THEN _clean_name(h.display)
    ELSE IF h.addr \in DOMAIN LocalPart /\ _is_valid_name(LocalPart[h.addr])
         THEN _clean_name(LocalPart[h.addr])
    ELSE <<>>

\* tokens that hold 'cash.app' or 'https://' (skipped by _extract_account_owner)
UrlToks == DOMAIN PaymentsUrlId

\* the number of leading lines _extract_account_owner looks at
OwnerLines == 10

IsNameLine(l) ==
    /\ Len(l) >= 2 /\ Len(l) <= 4
    /\ \A i \in 1..Len(l) : l[i] \in AlphaToks \ OneLetterToks

NonEmpty(l) == l # <<>>

\* CashAppParser._extract_account_owner; <<>> is None
_extract_account_owner(body, subject) ==
    LET lines == SelectSeq(SplitLines(Raw(body, subject)), NonEmpty)
        top   == SubSeq(lines, 1, IF Len(lines) < OwnerLines THEN Len(lines) ELSE OwnerLines)
        ok    == {i \in 1..Len(top) :
                    /\ \A k \in 1..Len(top[i]) : top[i][k] \notin UrlToks
                    /\ IsNameLine(top[i])
                    /\ _clean_name(top[i]) # <<>>}
    IN  IF ok = {} THEN <<>> ELSE _clean_name(top[Min(ok)])

(***************************************************************************)
(* CashAppParser: extraction                                               *)
(***************************************************************************)
\* None, for an amount
NoAmount == 0 - 1

\* _extract_amount (both parsers): the first "$<number>" of the content, in cents
_extract_amount(body, subject) ==
    LET c == Content(body, subject)
        k == FirstIn(c, 1, AmountToks)
    IN  IF k = 0 THEN NoAmount ELSE FloatCents(StripCommas(AmountText[c[k]]))

\* index of the first token after position i that is not in Skip, 0 if none
NextNot(s, i, Skip) ==
    LET rest == {k \in (i + 1)..Len(s) : s[k] \notin Skip}
    IN  IF rest = {} THEN 0 ELSE Min(rest)

\* the capture of a group [A-Za-z\s.'-]+ that starts at position i
AlphaRun(s, i) == Strip(TakeWhile(From(s, i), AlphaToks \cup {NL}))

\* match of <word><separators>([A-Za-z\s.'-]+...): position of the first such
\* word whose next token, past the tokens of Skip, is alphabetic; 0 if none
WordThenAlpha(s, word, Skip) ==
    LET hits == {i \in 1..Len(s) :
                    /\ Low(s[i]) = word
                    /\ NextNot(s, i, Skip) # 0
                    /\ s[NextNot(s, i, Skip)] \in AlphaToks}
    IN  IF hits = {} THEN 0 ELSE Min(hits)

\* CashAppParser._extract_sender: of its patterns the message space can match
\* only 'From[:\s]+<name>'; both the strict and the general list reject a
\* capture of at most two characters
_extract_sender(body, subject) ==
    LET c    == Content(body, subject)
        i    == WordThenAlpha(c, "from", {":", NL})
        name == IF i = 0 THEN <<>> ELSE _clean_name(AlphaRun(c, NextNot(c, i, {":", NL})))
    IN  IF ~Short(name) THEN name ELSE <<"Unknown">>

\* names _extract_recipient refuses from its Cash App patterns
RefusedRecipients == {"you", "your", "me", "cash", "balance", "view", "receipt", "visit", "url"}

\* '([^\n\r]+?)\s+received\s+\$': the line that ends just before the first 'received $'
ReceivedCapture(c) ==
    LET hits == {j \in 2..(Len(c) - 1) :
                    /\ Low(c[j]) = "received"
                    /\ c[j + 1] \in AmountToks
                    /\ \E k \in 1..(j - 1) : c[k] # NL}
        j    == Min(hits)
        last == Max({k \in 1..(j - 1) : c[k] # NL})
    IN  IF hits = {} THEN <<>> ELSE SubSeq(c, LineStart(c, last), last)

\* 'paid\s+([^\n\r]+)': the rest of the line after the first 'paid'
PaidCapture(c) ==
    LET hits == {j \in 1..Len(c) : Low(c[j]) = "paid" /\ NextNot(c, j, {NL}) # 0}
        j    == Min(hits)
        k    == NextNot(c, j, {NL})
    IN  IF hits = {} THEN <<>> ELSE SubSeq(c, k, LineEnd(c, k))

Refused(name, Set) == Len(name) = 1 /\ Low(name[1]) \in Set

\* a Cash App recipient pattern returns its capture when the capture has more
\* than two characters and its cleaned form is not a refused word
Accepted(capture) ==
    ~Short(capture) /\ ~Refused(_clean_name(capture), RefusedRecipients)

\* CashAppParser._extract_recipient; <<>> is None.  The message space can match
\* '<line> received $', 'paid <line>' and the general 'to <name>'
_extract_recipient(body, subject) ==
    LET c  == Content(body, subject)
        i  == WordThenAlpha(c, "to", {NL})
        g  == IF i = 0 THEN <<>> ELSE AlphaRun(c, NextNot(c, i, {NL}))
    IN  IF Accepted(ReceivedCapture(c)) THEN _clean_name(ReceivedCapture(c))
        ELSE IF Accepted(PaidCapture(c)) THEN _clean_name(PaidCapture(c))
        ELSE IF ~Short(g) /\ ~Refused(g, {"you", "your", "me"}) THEN _clean_name(g)
        ELSE <<>>

(***************************************************************************)
(* CashAppParser._extract_transaction_number                               *)
(***************************************************************************)
\* the words the label regex (?:Transaction|Payment|Confirmation) accepts
LabelHeads == {"transaction", "payment", "confirmation"}

\* the tokens that begin with (?:number|no\.?|id), and what of the token the
\* regex leaves for the capture
LabelRest ==
    [t \in {"number", "notification"} |->
        IF t = "number" THEN <<>> ELSE <<"tification">>]

\* the capture ([^\n\r]+) of the label regex when the label is at i, j
LabelCapture(raw, j) ==
    IF LabelRest[raw[j]] # <<>>
    THEN LabelRest[raw[j]] \o SubSeq(raw, j + 1, LineEnd(raw, j + 1))
    ELSE LET k == NextNot(raw, j, {":", "-", NL})
         IN  IF k = 0 THEN <<>> ELSE SubSeq(raw, k, LineEnd(raw, k))

\* step 1: the value of the first label that has a value; <<>> if none
LabelledValue(raw) ==
    LET hits == {i \in 1..Len(raw) :
                    /\ Low(raw[i]) \in LabelHeads
                    /\ NextNot(raw, i, {NL}) # 0
                    /\ raw[NextNot(raw, i, {NL})] \in DOMAIN LabelRest
                    /\ LabelCapture(raw, NextNot(raw, i, {NL})) # <<>>}
    IN  IF hits = {} THEN <<>>
        ELSE RTrim(DropWhile(LabelCapture(raw, NextNot(raw, Min(hits), {NL})), {":"}), {":"})

\* '#' + txn for the tokens that begin with D and not with '#'
HashOf == [t \in {"D-BBB", "David"} |-> IF t = "D-BBB" THEN "#D-BBB" ELSE "#David"]

AddHash(txn) ==
    IF txn # <<>> /\ txn[1] \in DOMAIN HashOf
    THEN <<HashOf[txn[1]]>> \o Tail(txn) ELSE txn

\* _extract_transaction_number; <<>> is None.  Step 1 returns the label value
\* as it stands.  Steps 2 and 4 need a label without a value, which no message
\* of the space has.  Step 3 returns the first '#D...' token; the id of a
\* /payments/ URL is returned unless it is a UUID.
_extract_transaction_number(body, subject) ==
    LET raw == Raw(body, subject)
        c   == Content(body, subject)
        lab == LabelledValue(raw)
        d   == FirstIn(c, 1, HashDToks)
        u   == FirstIn(c, 1, DOMAIN PaymentsUrlId)
    IN  IF lab # <<>> /\ lab # <<"-">> THEN AddHash(lab)
        ELSE IF d # 0 THEN <<c[d]>>
        ELSE IF u # 0 /\ ~IsUuid(PaymentsUrlId[c[u]]) THEN AddHash(<<PaymentsUrlId[c[u]]>>)
        ELSE <<>>

(***************************************************************************)
(* Messages                                                                *)
(***************************************************************************)
\* markup of a text/html part
TagToks == {"<p>", "</p>"}

NotTag(t) == t \notin TagToks

\* re.sub(r'<[^>]+>', '\n', html)
HtmlText(html) == [i \in 1..Len(html) |-> IF html[i] \in TagToks THEN NL ELSE html[i]]

\* BaseParser.extract_email_body: the text/plain part when there is one,
\* otherwise the text/html part without its tags, on one line
extract_email_body(m) ==
    IF m.body # <<>> THEN m.body ELSE SelectSeq(m.html, NotTag)

CashFrom == [display |-> <<>>, addr |-> "cash@square.com"]

VenmoFrom == [display |-> <<>>, addr |-> "payments@venmo.com"]

BobTo == [display |-> <<"Bob", "Jones">>, addr |-> "bob@x.com"]

Froms == {CashFrom, VenmoFrom}

Tos == {NoHeader, BobTo}

Subjects == {<<"Payment", "received">>, <<"Payment", "notification">>, <<"Venmo", "transfer">>}

Names == {<<"Jane", "Smith">>, <<"David">>}

\* the values a 'Transaction number' label carries
TxnToks == {"#D-AAA", "D-BBB", UuidTok}

\* 'You received $<A> from <Name>'
Recv(a, n) == <<"You", "received", a, "from">> \o n

\* the same with a labelled transaction number on the next line
RecvTxn(a, n, t) == Recv(a, n) \o <<NL, "Transaction", "number", ":", t>>

\* the same with a receipt link on the next line
RecvUrl(a, n) ==
    Recv(a, n) \o <<NL, "https://cash.app/payments/123e4567-e89b-12d3-a456-426614174000/receipt">>

\* a promotion
Promo(a) == <<"Get", "up", "to", a, "bonus">>

\* a payment notice of another service
Paid(a, n) == n \o <<"paid", a, "total">>

Bodies ==
    {Recv(a, n) : a \in AmountToks, n \in Names}
    \cup {RecvTxn(x[1], x[2], x[3]) : x \in AmountToks \X Names \X TxnToks}
    \cup {RecvUrl(a, n) : a \in {"$123.45"}, n \in Names}
    \cup {Promo(a) : a \in {"$123.45"}}
    \cup {Paid(a, n) : a \in AmountToks, n \in Names}
    \cup {<<"Hello", "world">>}

Htmls ==
    {<<>>,
     <<"<p>", "Transaction", "number", ":", "#D-AAA", "</p>">>,
     <<"<p>", "Hello", "world", "</p>">>}

\* the Date headers of the message space, as day numbers
Dates == {1, 2}

Message(f, t, s, b, h, d) ==
    [from |-> f, to |-> t, subject |-> s, body |-> b, html |-> h, date |-> d]

Messages ==
    {Message(x[1], x[2], x[3], x[4], x[5], 1) :
        x \in Froms \X Tos \X Subjects \X Bodies \X Htmls}

(***************************************************************************)
(* Parse results                                                           *)
(***************************************************************************)
\* a transaction_id: a number read from the message (src "extracted", num) or
\* the md5 of sender, recipient, amount and date (src "md5", h)
NoId == [src |-> "none", num |-> <<>>, h |-> <<>>]

ExtractedId(num) == [src |-> "extracted", num |-> num, h |-> <<>>]

\* GenericPaymentParser._generate_transaction_id
_generate_transaction_id(sender, recipient, amount, date) ==
    [src |-> "md5", num |-> <<>>, h |-> <<sender, recipient, amount, date>>]

\* parse_transaction returned None
NoneResult ==
    [kind |-> "None", transaction_id |-> NoId, amount |-> NoAmount, sender |-> <<>>,
     paid_to |-> <<>>, transaction_number |-> <<>>, source_provider |-> "", date |-> 0]

\* BaseParser.validate_transaction_data
validate_transaction_data(data) ==
    /\ data.transaction_id # NoId
    /\ data.sender # <<>>
    /\ data.amount # NoAmount
    /\ data.source_provider # ""
    /\ data.amount > 0

(***************************************************************************)
(* CashAppParser                                                           *)
(***************************************************************************)
\* s has the lower-case words a and b in a row, line breaks between allowed (a\s+b)
Adjacent(s, a, b) ==
    \E i \in 1..Len(s) :
        /\ Low(s[i]) = a
        /\ NextNot(s, i, {NL}) # 0
        /\ Low(s[NextNot(s, i, {NL})]) = b

\* 'get up to' is in the lower-cased text
HasGetUpTo(s) ==
    \E i \in 1..(Len(s) - 2) : Low(s[i]) = "get" /\ s[i + 1] = "up" /\ s[i + 2] = "to"

\* the text holds a promotional keyword
Promotional(s) == HasGetUpTo(s) \/ Contains(s, "bonus")

\* CashAppParser.can_parse
can_parse(m) ==
    LET subject == m.subject
        body    == extract_email_body(m)
    IN  IF \/ m.from.addr = "cash@square.com"
           \/ \E i \in 1..Len(subject) : subject[i] \in UrlToks
           \/ \E i \in 1..Len(body) : body[i] \in UrlToks
        THEN ~(Promotional(subject) \/ Promotional(body))
        ELSE \/ Adjacent(subject, "payment", "received")
             \/ \E i \in 1..Len(subject) : subject[i] \in AmountToks
             \/ Adjacent(body, "transaction", "number")
             \/ \E i \in 1..Len(body) : body[i] \in HashDToks

\* the placeholders parse_transaction maps to the account owner
Placeholders == {<<"unknown">>, <<"cashapp">>, <<"noreply">>, <<"cash", "app">>}

\* a placeholder becomes the account owner of the body, else the display name
\* of the From header, else None
MapPlaceholder(name, m) ==
    LET owner == IF _extract_account_owner(extract_email_body(m), m.subject) # <<>>
                 THEN _extract_account_owner(extract_email_body(m), m.subject)
                 ELSE _parse_display_name_from_header(m.from)
    IN  IF name # <<>> /\ LowSeq(name) \in Placeholders
        THEN (IF _is_valid_name(owner) THEN owner ELSE <<>>)
        ELSE name

\* the transaction number of the body, else that of the text/html part
NumberOf(m) ==
    LET inBody == _extract_transaction_number(extract_email_body(m), m.subject)
    IN  IF inBody # <<>> THEN inBody
        ELSE IF m.html # <<>> THEN _extract_transaction_number(HtmlText(m.html), m.subject)
        ELSE <<>>

\* CashAppParser.parse_transaction
parse_transaction(m) ==
    LET body      == extract_email_body(m)
        amount    == _extract_amount(body, m.subject)
        sender0   == MapPlaceholder(_extract_sender(body, m.subject), m)
        recip0    == MapPlaceholder(_extract_recipient(body, m.subject), m)
        sender    == IF sender0 = <<>> THEN _parse_display_name_from_header(m.from) ELSE sender0
        recipient == IF recip0 = <<>> THEN _parse_display_name_from_header(m.to) ELSE recip0
        number    == NumberOf(m)
        data      == [kind |-> "dict", transaction_id |-> ExtractedId(number),
                      amount |-> amount, sender |-> sender, paid_to |-> recipient,
                      transaction_number |-> number, source_provider |-> "cashapp",
                      date |-> m.date]
    IN  IF amount = NoAmount \/ amount = 0 THEN NoneResult
        ELSE IF sender = <<>> \/ recipient = <<>> THEN NoneResult
        ELSE IF number = <<>> THEN NoneResult
        ELSE IF ~validate_transaction_data(data) THEN NoneResult
        ELSE data

(***************************************************************************)
(* GenericPaymentParser                                                    *)
(***************************************************************************)
\* the payment keywords a token holds
KeywordOf ==
    [t \in {"Payment", "paid", "received", "Transaction", "transfer", "total",
            "$123.45", "$1,234.56", "$0.00"} |->
        CASE t = "Payment" -> "payment"
          [] t = "paid" -> "paid"
          [] t = "received" -> "received"
          [] t = "Transaction" -> "transaction"
          [] t = "transfer" -> "transfer"
          [] t = "total" -> "total"
          [] OTHER -> "$"]

KeywordsIn(s) == {KeywordOf[s[i]] : i \in {k \in 1..Len(s) : s[k] \in DOMAIN KeywordOf}}

\* the number of payment keywords that makes a message a payment email
MinKeywords == 2

\* GenericPaymentParser.can_parse
Generic_can_parse(m) ==
    /\ m.from.addr # "cash@square.com"
    /\ Cardinality(KeywordsIn(m.subject) \cup KeywordsIn(extract_email_body(m))) >= MinKeywords

NotNL(t) == t # NL

\* GenericPaymentParser._clean_name: the last line of a multi-line capture is cut
Generic_clean_name(name) ==
    LET nls == {k \in 1..Len(name) : name[k] = NL}
    IN  IF nls = {} THEN name
        ELSE SelectSeq(Strip(SubSeq(name, 1, Max(nls) - 1)), NotNL)

\* one pattern '<word>\s+<name>' of the generic parser; <<>> is None
GenericCapture(c, word) ==
    LET i    == WordThenAlpha(c, word, {NL})
        name == IF i = 0 THEN <<>> ELSE Generic_clean_name(AlphaRun(c, NextNot(c, i, {NL})))
    IN  IF Short(name) THEN <<>> ELSE name

\* GenericPaymentParser._extract_transaction_number: '#' + the first '#<id>'
\* token, else '#' + the value of a 'Transaction number' label; <<>> is None
GenericHashOf ==
    [t \in TxnToks \cup HashDToks |->
        CASE t = "D-BBB" -> "#D-BBB"
          [] t = UuidTok -> "#123e4567-e89b-12d3-a456-426614174000"
          [] OTHER -> t]

Generic_extract_transaction_number(body, subject) ==
    LET c    == Content(body, subject)
        d    == FirstIn(c, 1, HashDToks)
        labs == {i \in 1..Len(c) :
                    /\ Low(c[i]) = "transaction"
                    /\ i + 3 <= Len(c)
                    /\ c[i + 1] = "number" /\ c[i + 2] = ":"
                    /\ c[i + 3] \in DOMAIN GenericHashOf}
    IN  IF d # 0 THEN <<c[d]>>
        ELSE IF labs # {} THEN <<GenericHashOf[c[Min(labs) + 3]]>>
        ELSE <<>>

\* GenericPaymentParser._detect_provider
_detect_provider(m) == IF m.from.addr = "payments@venmo.com" THEN "venmo" ELSE "square"

\* GenericPaymentParser.parse_transaction: a Transaction object whose
\* transaction_id is generated and whose number, if any, is kept apart
Generic_parse_transaction(m) ==
    LET body      == extract_email_body(m)
        amount    == _extract_amount(body, m.subject)
        from      == GenericCapture(Content(body, m.subject), "from")
        to        == GenericCapture(Content(body, m.subject), "to")
        sender    == IF from = <<>> THEN <<"Unknown">> ELSE from
        recipient == IF to = <<>> THEN <<"Unknown">> ELSE to
    IN  IF amount = NoAmount \/ amount = 0 THEN NoneResult
        ELSE [kind |-> "orm",
              transaction_id |-> _generate_transaction_id(sender, recipient, amount, m.date),
              amount |-> amount, sender |-> sender, paid_to |-> recipient,
              transaction_number |-> Generic_extract_transaction_number(body, m.subject),
              source_provider |-> _detect_provider(m), date |-> m.date]

(***************************************************************************)
(* ParserFactory                                                           *)
(***************************************************************************)
\* the registered parsers, in registration order
_parsers == <<"cashapp", "generic_payment">>

CanParse(name, m) == IF name = "cashapp" THEN can_parse(m) ELSE Generic_can_parse(m)

\* a factory that lets the last parser that accepts win
find_last_parser_for_email(m) ==
    LET ok == {i \in 1..Len(_parsers) : CanParse(_parsers[i], m)}
    IN  IF ok = {} THEN "None" ELSE _parsers[Max(ok)]

\* ParserFactory.find_parser_for_email: the first parser that accepts; "None" if none
find_parser_for_email(m) ==
    LET ok == {i \in 1..Len(_parsers) : CanParse(_parsers[i], m)}
    IN  IF ok = {} THEN "None" ELSE _parsers[Min(ok)]

ParseWith(name, m) ==
    IF name = "cashapp" THEN parse_transaction(m) ELSE Generic_parse_transaction(m)

(***************************************************************************)
(* SpecParse: one message through the parser chain                         *)
(***************************************************************************)
\* the variables of _process_email_list before any list is handed over
EmptyResults ==
    [processed_emails |-> 0, new_transactions |-> 0, errors |-> 0, transactions |-> <<>>,
     duplicate_transactions |-> <<>>, failed_emails |-> <<>>, message |-> ""]

ListIdle ==
    /\ emails = <<>>
    /\ pos = 0
    /\ results = EmptyResults
    /\ seen_ids = {}

\* no integration store, no clock, no refresh call
StoreIdle == store = <<>> /\ now = 0

RefreshIdle ==
    /\ integration = <<>>
    /\ configured = TRUE
    /\ ret = "none"
    /\ call = <<>>

\* the results dictionary a multi-account run starts with
EmptyRunResults ==
    [processed_emails |-> 0, new_transactions |-> 0, errors |-> 0, transactions |-> <<>>,
     duplicate_transactions |-> <<>>, failed_emails |-> <<>>, message |-> "",
     Erros |-> <<>>]

RunIdle ==
    /\ run = [n |-> 0, retrieved |-> 0]
    /\ pc = "idle"
    /\ integrations = <<>>
    /\ cur = 0
    /\ runres = EmptyRunResults
    /\ log = <<>>
    /\ prevFailed = {}

(***************************************************************************)
(* The IMAP session of EmailClient: __enter__, one retrieval operation     *)
(* consumed to its end, __exit__.  The server side is what the program     *)
(* sent: connections created, LOGOUT commands, and the message numbers     *)
(* that carry \Seen.                                                       *)
(***************************************************************************)
MaxMailbox == 2

NoEntry == [name |-> "none", holder |-> "none", operation |-> "none"]

SessionIdle ==
    /\ _connection = "none"
    /\ imap = [opened |-> 0, logout |-> 0, seen |-> {}]
    /\ entry_point = NoEntry
    /\ todo = <<>>
    /\ yielded = {}
    /\ cpc = "idle"

\* who holds the client and how it is entered: "self" is
\* `with self.email_client:`, "fresh" is `with EmailClient() as c:`,
\* "manual" is client.__enter__() with client.__exit__() in a finally
EntryPoints ==
    { [name |-> "process_emails", holder |-> "self",
       operation |-> "fetch_unread_emails"],
      [name |-> "process_emails_by_subject", holder |-> "self",
       operation |-> "search_emails_by_subject"],
      [name |-> "process_emails_by_sender", holder |-> "fresh",
       operation |-> "search_emails_by_sender"],
      [name |-> "process_emails_by_sender_date_range", holder |-> "fresh",
       operation |-> "search_emails_by_sender_date_range"],
      [name |-> "process_emails_by_content_date_range", holder |-> "fresh",
       operation |-> "search_emails_by_content_date_range"],
      [name |-> "process_emails_by_content", holder |-> "fresh",
       operation |-> "search_emails_by_content"],
      [name |-> "process_integration_emails", holder |-> "manual",
       operation |-> "search_emails_by_sender"],
      [name |-> "run_parser", holder |-> "fresh",
       operation |-> "fetch_emails_by_sender"] }

\* the operations whose loop calls mark_as_read after the yield
MarkingOperations ==
    {"fetch_unread_emails", "search_emails_by_subject", "search_emails_by_content"}

\* the operations whose outer handler raises again what the search raised
RaisingOperations ==
    {"search_emails_by_sender", "search_emails_by_sender_date_range",
     "search_emails_by_content_date_range"}

\* EmailClient.__enter__: the connection object is assigned before login,
\* and a failure of either is raised again
__enter__(outcome) ==
    [_connection |-> IF outcome = "create_fails" THEN "none" ELSE "imap",
     opened      |-> IF outcome = "create_fails" THEN 0 ELSE 1,
     raised      |-> outcome # "ok"]

\* EmailClient.__exit__: logout is tried when a connection is held, and the
\* connection is dropped whatever logout did
__exit__(conn, server) ==
    [_connection |-> "none",
     imap        |-> IF conn # "none"
                     THEN [server EXCEPT !.logout = @ + 1]
                     ELSE server]

\* EmailClient.mark_as_read: \Seen is stored when the STORE command is
\* answered OK; any failure is logged and swallowed
mark_as_read(server, num, ok) ==
    IF ok THEN [server EXCEPT !.seen = @ \cup {num}] ELSE server

\* whether __exit__ runs after __enter__ raised: a with statement does not
\* call it, the finally of process_integration_emails does
ExitAfterFailedEnter(holder) == holder = "manual"

\* the message numbers a search can answer, oldest first
SearchAnswers ==
    { s \in UNION { [1..n -> 1..MaxMailbox] : n \in 0..MaxMailbox } :
        \A i \in 1..(Len(s) - 1) : s[i] < s[i + 1] }


(***************************************************************************)
(* SupabaseTransactionSync: the sink.  The table staging.pay_transactions  *)
(* is a set of rows and refuses a second row with the same                 *)
(* (user_id, transaction_number, payment_provider).                        *)
(***************************************************************************)
MaxBatch == 2

MaxSinkCalls == 2

SinkIdle ==
    /\ table = {}
    /\ sink_calls = <<>>

\* a transaction dictionary as the sink reads it; 0 is a missing user id,
\* NoAmount a missing amount, "" a missing string
SinkRecord(user, amount_paid, amount, number, cashapp_number, id) ==
    [integration_user_id |-> user, amount_paid |-> amount_paid, amount |-> amount,
     transaction_number |-> number, cashapp_transaction_number |-> cashapp_number,
     transaction_id |-> id, source_provider |-> "cashapp"]

SinkRecords ==
    { SinkRecord(11, NoAmount, 500, "", "#A", "#A"),
      SinkRecord(12, NoAmount, 500, "#A", "", "m1"),
      SinkRecord(0, NoAmount, 500, "", "#A", "#A"),
      SinkRecord(11, 0, NoAmount, "", "", "#B"),
      SinkRecord(11, 0 - 100, 500, "#B", "", "m2"),
      SinkRecord(11, 700, 500, "#A", "", "m3") }

Batches == UNION { [1..n -> SinkRecords] : n \in 0..MaxBatch }

\* Python's `a or b` on optional strings and on optional numbers
OrString(a, b) == IF a # "" THEN a ELSE b

OrNumber(a, b) == IF a # NoAmount /\ a # 0 THEN a ELSE b

\* the three fields of the row that carry the owner
Owner(transaction) ==
    [user_id    |-> transaction.integration_user_id,
     created_by |-> transaction.integration_user_id,
     updated_by |-> transaction.integration_user_id]

\* the row prepared for staging.pay_transactions
transaction_data(transaction) ==
    [user_id            |-> Owner(transaction).user_id,
     amount_paid        |-> OrNumber(transaction.amount_paid, transaction.amount),
     transaction_number |-> OrString(transaction.transaction_number,
                                OrString(transaction.cashapp_transaction_number,
                                         transaction.transaction_id)),
     payment_provider   |-> transaction.source_provider,
     created_by         |-> Owner(transaction).created_by,
     updated_by         |-> Owner(transaction).updated_by]

\* the local validation of a row: "" when it may be sent
accept_every_row(row) == ""

validate_required(row) ==
    IF row.user_id = 0 THEN "Missing user_id"
    ELSE IF row.amount_paid = NoAmount \/ row.amount_paid = 0 \/ row.amount_paid <= 0
    THEN "Invalid amount_paid"
    ELSE ""

KeyOf(row) == <<row.user_id, row.transaction_number, row.payment_provider>>

HasKey(tbl, row) == \E r \in tbl : KeyOf(r) = KeyOf(row)

\* what the store can raise
UniqueViolation == "duplicate key value violates unique constraint"

ConnectionError == "connection reset"

\* the messages that carry 'duplicate key' or 'unique constraint'
UniquenessSignatures == {UniqueViolation}

\* the except branch of the loop: the class of a failed insert
every_failure_is_error(error_msg) == "error"

classify_failure(error_msg) ==
    IF error_msg \in UniquenessSignatures THEN "duplicate" ELSE "error"

\* what the store does with one insert: the row it adds, the exception it
\* raises ("" for none) and whether it returns data
InsertAnswers == {"stored", "no_data_stored", "no_data", "fails"}

StoreInsert(tbl, row, answer) ==
    IF answer = "fails" THEN [table |-> tbl, raised |-> ConnectionError, data |-> FALSE]
    ELSE IF HasKey(tbl, row) THEN [table |-> tbl, raised |-> UniqueViolation, data |-> FALSE]
    ELSE IF answer = "no_data" THEN [table |-> tbl, raised |-> "", data |-> FALSE]
    ELSE [table |-> tbl \cup {row}, raised |-> "", data |-> answer = "stored"]

NoSummary ==
    [inserted_count |-> 0, duplicate_count |-> 0, error_count |-> 0, errors |-> <<>>]

\* one iteration of the loop of insert_transactions on the accumulator
\* [table, summary, trace]; trace keeps, per record, what was done with it
InsertOne(acc, transaction, answer) ==
    LET row     == transaction_data(transaction)
        refusal == validate_required(row)
        done    == StoreInsert(acc.table, row, answer)
        class   == IF refusal # "" THEN "error"
                   ELSE IF done.raised # "" THEN classify_failure(done.raised)
                   ELSE IF done.data THEN "inserted"
                   ELSE "error"
        reason  == IF refusal # "" THEN refusal
                   ELSE IF done.raised # "" THEN done.raised
                   ELSE "No data returned from insert"
        s       == acc.summary
    IN  [table   |-> IF refusal # "" THEN acc.table ELSE done.table,
         summary |-> IF class = "inserted"
                     THEN [s EXCEPT !.inserted_count = @ + 1]
                     ELSE IF class = "duplicate"
                     THEN [s EXCEPT !.duplicate_count = @ + 1]
                     ELSE [s EXCEPT !.error_count = @ + 1,
                                    !.errors = Append(@,
                                        [transaction_number |-> row.transaction_number,
                                         error |-> reason])],
         trace   |-> Append(acc.trace,
                        [row |-> row, issued |-> refusal = "",
                         raised |-> IF refusal = "" THEN done.raised ELSE "",
                         data |-> refusal = "" /\ done.data,
                         class |-> class])]

RECURSIVE InsertLoop(_, _, _, _)
InsertLoop(acc, batch, answers, i) ==
    IF i > Len(batch) THEN acc
    ELSE InsertLoop(InsertOne(acc, batch[i], answers[i]), batch, answers, i + 1)

\* SupabaseTransactionSync.insert_transactions
insert_transactions(tbl, transactions, schema_ok, answers) ==
    IF transactions = <<>>
    THEN [table |-> tbl, summary |-> NoSummary, trace |-> <<>>, tested |-> FALSE]
    ELSE IF ~schema_ok
    THEN [table |-> tbl,
          summary |-> [NoSummary EXCEPT
                         !.error_count = Len(transactions),
                         !.errors = <<[transaction_number |-> "schema_test",
                                       error |-> ConnectionError]>>],
          trace |-> <<>>, tested |-> TRUE]
    ELSE LET r == InsertLoop([table |-> tbl, summary |-> NoSummary, trace |-> <<>>],
                             transactions, answers, 1)
         IN  [table |-> r.table, summary |-> r.summary, trace |-> r.trace,
              tested |-> TRUE]

\* the rows upsert_transactions sends, and the errors of those it refuses
RECURSIVE UpsertPrepare(_, _, _)
UpsertPrepare(acc, batch, i) ==
    IF i > Len(batch) THEN acc
    ELSE LET row     == transaction_data(batch[i])
             refusal == validate_required(row)
         IN  UpsertPrepare(
                 IF refusal = ""
                 THEN [acc EXCEPT !.rows = Append(@, row)]
                 ELSE [acc EXCEPT !.errors = Append(@,
                           [transaction_number |-> row.transaction_number,
                            error |-> refusal])],
                 batch, i + 1)

\* the store's upsert on (user_id, transaction_number, payment_provider):
\* a statement that names one key twice is refused as a whole
StoreUpsert(tbl, rows, ok) ==
    LET keys == { KeyOf(rows[i]) : i \in 1..Len(rows) }
    IN  IF ~ok \/ Cardinality(keys) < Len(rows)
        THEN [table |-> tbl, raised |-> TRUE]
        ELSE [table |-> { r \in tbl : KeyOf(r) \notin keys }
                            \cup { rows[i] : i \in 1..Len(rows) },
              raised |-> FALSE]

\* SupabaseTransactionSync.upsert_transactions
upsert_transactions(tbl, transactions, ok) ==
    LET p    == UpsertPrepare([rows |-> <<>>, errors |-> <<>>], transactions, 1)
        done == StoreUpsert(tbl, p.rows, ok)
    IN  IF p.rows = <<>>
        THEN [table |-> tbl,
              summary |-> [upserted_count |-> 0, error_count |-> Len(p.errors),
                           errors |-> p.errors]]
        ELSE IF done.raised
        THEN [table |-> tbl,
              summary |-> [upserted_count |-> 0,
                           error_count |-> Len(p.errors) + Len(p.rows),
                           errors |-> Append(p.errors,
                               [transaction_number |-> "bulk_upsert",
                                error |-> ConnectionError])]]
        ELSE [table |-> done.table,
              summary |-> [upserted_count |-> Len(p.rows), error_count |-> Len(p.errors),
                           errors |-> p.errors]]


(***************************************************************************)
(* batch_daily_sync: one pass over the active OAuth integrations.  A       *)
(* mailbox is the set of senders it holds a message of on the target day.  *)
(***************************************************************************)
MaxAccounts == 2

NoBatchResults ==
    [integrations_processed |-> 0, total_emails_processed |-> 0, total_errors |-> 0,
     integration_results |-> <<>>, message |-> ""]

BatchIdle ==
    /\ boxes = <<>>
    /\ accounts = <<>>
    /\ bpos = 0
    /\ all_results = NoBatchResults
    /\ searched = <<>>

\* the addresses an integration can carry as email_username; "" is none
Usernames == {"", "a@example.com", "b@example.com"}

Senders == Usernames \ {""}

\* the active OAuth rows of the store as the batch sees them: the id, the
\* owner, the sender to look for and whether the token can be made valid
Account(id, username, refresh_ok) ==
    [id |-> id, user_id |-> 10 + id, email_username |-> username, refresh_ok |-> refresh_ok]

AccountLists ==
    UNION { { a \in [1..n -> [id : 1..MaxAccounts, user_id : 11..(10 + MaxAccounts),
                              email_username : Usernames, refresh_ok : BOOLEAN]] :
                \A k \in 1..n : a[k] = Account(k, a[k].email_username, a[k].refresh_ok) }
            : n \in 0..MaxAccounts }

\* MultiAccountEmailClient.process_all_integrations_emails as the processor
\* consumes it: every active integration whose token is valid is searched
\* for the sender, whoever asked
process_emails_by_sender_date_range(bx, accts, sender_email) ==
    LET visited == SelectSeq(accts, LAMBDA a : a.refresh_ok)
    IN  [searched         |-> [k \in 1..Len(visited) |-> visited[k].id],
         processed_emails |-> Cardinality({ k \in 1..Len(visited) :
                                              sender_email \in bx[visited[k].id] })]

\* the body of the loop of batch_daily_sync for one integration
daily_sync_one(r, bx, accts, integ) ==
    LET sender_email == integ.email_username
        result == process_emails_by_sender_date_range(bx, accts, sender_email)
    IN  IF sender_email = ""
        THEN [results |-> [r EXCEPT !.total_errors = @ + 1,
                              !.integration_results = Append(@,
                                  [integration_id |-> integ.id, user_id |-> integ.user_id,
                                   error |-> "No email_username configured"])],
              searched |-> <<>>]
        ELSE IF ~integ.refresh_ok
        THEN [results |-> [r EXCEPT !.total_errors = @ + 1,
                              !.integration_results = Append(@,
                                  [integration_id |-> integ.id, user_id |-> integ.user_id,
                                   error |-> "OAuth token refresh failed"])],
              searched |-> <<>>]
        ELSE [results |-> [r EXCEPT !.integrations_processed = @ + 1,
                              !.total_emails_processed = @ + result.processed_emails,
                              !.integration_results = Append(@,
                                  [integration_id |-> integ.id, user_id |-> integ.user_id,
                                   email_username |-> sender_email,
                                   emails_processed |-> result.processed_emails])],
              searched |-> [k \in 1..Len(result.searched) |->
                               [mailbox |-> result.searched[k], sender |-> sender_email,
                                for |-> integ.id]]]

(***************************************************************************)
(* The limit of the sync-by-sender endpoints, down to the one              *)
(* users().messages().list call GmailAPIClient makes per search.           *)
(***************************************************************************)
MaxMatching == 501

MaxLimit == 2

SenderMaxResults == 100

DateRangeMaxResults == 500

NotFetched == 0 - 1

LimitIdle ==
    /\ matching = 0
    /\ limit = 0
    /\ endpoint = "none"
    /\ fetched = NotFetched

\* the endpoints and the limit each hands down; 0 is `limit` 0 or absent.
\* The date-range endpoint has no limit parameter
SyncEndpoints == {"sync_emails_by_sender", "sync_emails_by_sender_date_range"}

LimitOf(ep, requested) == IF ep = "sync_emails_by_sender" THEN requested ELSE 0

\* maxResults of the list call: `limit if limit else <default>`
maxResults(ep, lim) ==
    IF lim # 0 THEN lim
    ELSE IF ep = "sync_emails_by_sender" THEN SenderMaxResults
    ELSE DateRangeMaxResults

\* users().messages().list(q, maxResults).execute(): one page of at most
\* maxResults message references; the next page is never asked for
list_messages(n, max_results) == IF n <= max_results THEN n ELSE max_results

\* GmailAPIClient.search_emails_by_sender / search_emails_by_sender_date_range:
\* the number of messages yielded out of n matching ones
search_emails_by_sender(ep, n, lim) == list_messages(n, maxResults(ep, lim))

(***************************************************************************)
(* Retrieval by search: the IMAP operations of EmailClient, the date-range *)
(* search of GmailAPIClient and the manual branch of                       *)
(* process_integration_emails, each over one mailbox.  A date is a number  *)
(* of days counted from 2023-01-01; the criteria a client sends holds the  *)
(* date as strftime wrote it, and the server reads it back.                *)
(***************************************************************************)
\* the longest mailbox
MaxStored == 3

\* calendar arithmetic of datetime: the date n days after 2023-01-01
IsLeap(y) == (y % 4 = 0 /\ y % 100 # 0) \/ y % 400 = 0

DaysInMonth(y, m) ==
    IF m = 2 THEN (IF IsLeap(y) THEN 29 ELSE 28)
    ELSE IF m \in {4, 6, 9, 11} THEN 30 ELSE 31

RECURSIVE DateFrom(_, _, _)
DateFrom(n, y, m) ==
    IF n < DaysInMonth(y, m) THEN [year |-> y, month |-> m, day |-> n + 1]
    ELSE DateFrom(n - DaysInMonth(y, m), IF m = 12 THEN y + 1 ELSE y,
                  IF m = 12 THEN 1 ELSE m + 1)

DateOf(n) == DateFrom(n, 2023, 1)

\* end_date + timedelta(days=1)
NextDay(n) == n + 1

MonthAbbr ==
    <<"Jan", "Feb", "Mar", "Apr", "May", "Jun", "Jul", "Aug", "Sep", "Oct", "Nov", "Dec">>

\* strftime("%d-%b-%Y"), the IMAP date: DD-Mon-YYYY
strftime_imap(n) ==
    LET d == DateOf(n) IN <<d.day, MonthAbbr[d.month], d.year>>

\* strftime("%Y/%m/%d"), the Gmail date: YYYY/MM/DD
strftime_gmail(n) ==
    LET d == DateOf(n) IN <<d.year, d.month, d.day>>

\* the dates of the model: 2023-12-31, 2024-01-01, 2024-02-29, 2024-05-31,
\* 2024-06-01
SearchDays == {364, 365, 424, 516, 517}

\* the days a server may have to read back
ServerDays == SearchDays \cup {NextDay(n) : n \in SearchDays}

\* the server's reading of a date of a criteria
ImapDate(text) == CHOOSE n \in ServerDays : strftime_imap(n) = text

GmailDate(text) == CHOOSE n \in ServerDays : strftime_gmail(n) = text

\* no date argument
NoDate == 0 - 1

\* no SINCE, BEFORE, after: or before: term
NoTerm == <<>>

\* the sender searched for, and another one
SearchSender == "cash@square.com"

StoredSenders == {SearchSender, "other@example.com"}

\* a stored message; its number is its place in the mailbox
Stored(sender, day, unseen) == [from |-> sender, day |-> day, unseen |-> unseen]

\* the mailboxes: up to MaxStored messages in the order they arrived
Mailboxes ==
    { b \in UNION { [1..n -> { Stored(s, d, u) : s \in StoredSenders,
                                d \in {364, 516, 517}, u \in BOOLEAN }] : n \in 0..MaxStored } :
        \A i \in 1..(Len(b) - 1) : b[i].day <= b[i + 1].day }

\* the mailbox holds Cash App notices, whose sender, subject and body are
\* what the searches of the model look for, and other mail
IsNotice(message) == message.from = SearchSender

\* an IMAP search criteria: the key with its text, and the SINCE and BEFORE
\* terms as written, NoTerm when absent
Criteria(key, text, since, before) ==
    [key |-> key, text |-> text, since |-> since, before |-> before]

\* what the server answers to SEARCH: the numbers of the messages that
\* match, ascending.  SINCE is inclusive, BEFORE is exclusive (RFC 3501)
ImapMatches(message, c) ==
    /\ CASE c.key = "UNSEEN"  -> message.unseen
         [] c.key = "FROM"    -> message.from = c.text
         [] c.key = "SUBJECT" -> IsNotice(message)
         [] OTHER             -> TRUE
    /\ c.since # NoTerm => message.day >= ImapDate(c.since)
    /\ c.before # NoTerm => message.day < ImapDate(c.before)

ImapSearch(box, c) ==
    SelectSeq([i \in 1..Len(box) |-> i], LAMBDA i : ImapMatches(box[i], c))

\* s[:n] and s[-n:] of a list, for n > 0
FirstN(s, n) == SubSeq(s, 1, Min({n, Len(s)}))

LastN(s, n) == SubSeq(s, Max({1, Len(s) - n + 1}), Len(s))

\* the window search_emails_by_content searches when no limit is given
ContentWindow == 100

\* what a retrieval returns: the criteria sent, the numbers fetched and the
\* numbers yielded, in order
Retrieved(sent, got, out) == [sent |-> sent, fetched |-> got, yielded |-> out]

\* EmailClient.fetch_unread_emails
fetch_unread_emails(box, lim) ==
    LET c == Criteria("UNSEEN", "", NoTerm, NoTerm)
        message_numbers == ImapSearch(box, c)
        cut == IF lim # 0 THEN FirstN(message_numbers, lim) ELSE message_numbers
    IN  Retrieved(<<c>>, cut, cut)

\* EmailClient.fetch_emails_by_sender
fetch_emails_by_sender(box, sender, lim) ==
    LET c == Criteria("FROM", sender, NoTerm, NoTerm)
        message_numbers == ImapSearch(box, c)
        cut == IF lim # 0 THEN FirstN(message_numbers, lim) ELSE message_numbers
    IN  Retrieved(<<c>>, cut, cut)

\* EmailClient.search_emails_by_subject
search_emails_by_subject(box, search_text, lim) ==
    LET c == Criteria("SUBJECT", search_text, NoTerm, NoTerm)
        message_numbers == ImapSearch(box, c)
        cut == IF lim # 0 THEN LastN(message_numbers, lim) ELSE message_numbers
    IN  Retrieved(<<c>>, cut, cut)

\* the loop of search_emails_by_content: every number is fetched, a message
\* holding the text is yielded, and the loop stops at the limit-th one
RECURSIVE ContentLoop(_, _, _, _, _, _)
ContentLoop(box, nums, i, lim, got, out) ==
    IF i > Len(nums) THEN <<got, out>>
    ELSE LET hit  == IsNotice(box[nums[i]])
             out2 == IF hit THEN Append(out, nums[i]) ELSE out
         IN  IF hit /\ lim # 0 /\ Len(out2) >= lim
             THEN <<Append(got, nums[i]), out2>>
             ELSE ContentLoop(box, nums, i + 1, lim, Append(got, nums[i]), out2)

\* EmailClient.search_emails_by_content
search_emails_by_content(box, search_text, lim) ==
    LET c == Criteria("ALL", "", NoTerm, NoTerm)
        message_numbers == ImapSearch(box, c)
        cut == IF lim # 0 THEN LastN(message_numbers, lim)
               ELSE LastN(message_numbers, ContentWindow)
        done == ContentLoop(box, cut, 1, lim, <<>>, <<>>)
    IN  Retrieved(<<c>>, done[1], done[2])

\* the domain of an address, quoted as search_emails_by_sender sends it
DomainOf(sender) == IF sender = SearchSender THEN "@square.com" ELSE "@example.com"

\* EmailClient.search_emails_by_sender (IMAP): FROM "<sender>", then FROM
\* <sender> and FROM "@<domain>" while nothing is found; the last N numbers
imap_search_emails_by_sender(box, sender_email, lim) ==
    LET c1 == Criteria("FROM", sender_email, NoTerm, NoTerm)
        c2 == Criteria("FROM", sender_email, NoTerm, NoTerm)
        c3 == Criteria("FROM", DomainOf(sender_email), NoTerm, NoTerm)
        a1 == ImapSearch(box, c1)
        a3 == SelectSeq([i \in 1..Len(box) |-> i],
                        LAMBDA i : DomainOf(box[i].from) = c3.text)
        sent == IF a1 # <<>> THEN <<c1>> ELSE <<c1, c2, c3>>
        email_id_list == IF a1 # <<>> THEN a1 ELSE a3
        cut == IF lim # 0 /\ lim > 0 THEN LastN(email_id_list, lim) ELSE email_id_list
    IN  Retrieved(sent, cut, cut)

\* EmailClient.search_emails_by_sender_date_range: SINCE the start date and,
\* with an end date, BEFORE the end date
imap_search_emails_by_sender_date_range(box, sender_email, start_date, end_date) ==
    LET c == IF end_date # NoDate
             THEN Criteria("FROM", sender_email, strftime_imap(start_date),
                           strftime_imap(end_date))
             ELSE Criteria("FROM", sender_email, strftime_imap(start_date), NoTerm)
        email_id_list == ImapSearch(box, c)
    IN  Retrieved(<<c>>, email_id_list, email_id_list)

\* a Gmail query: from:<sender> with the after: and before: terms as written
Query(sender, after, before) == [from |-> sender, after |-> after, before |-> before]

\* what users().messages().list answers: the matching messages, newest
\* first, at most max_results of them; after: is inclusive, before: exclusive
GmailMatches(message, q) ==
    /\ message.from = q.from
    /\ q.after # NoTerm => message.day >= GmailDate(q.after)
    /\ q.before # NoTerm => message.day < GmailDate(q.before)

RECURSIVE Reverse(_)
Reverse(s) == IF s = <<>> THEN <<>> ELSE Append(Reverse(Tail(s)), Head(s))

GmailList(box, q, max_results) ==
    FirstN(Reverse(SelectSeq([i \in 1..Len(box) |-> i],
                             LAMBDA i : GmailMatches(box[i], q))), max_results)

\* maxResults of the diagnostic query
FallbackMaxResults == 10

\* a before: term that is the end date as given
before_as_given(start_date, end_date) == strftime_gmail(end_date)

\* the before: term of the date-range query: the day after the end date
\* when start and end are the same day, else the end date
before_term(start_date, end_date) ==
    IF start_date = end_date THEN strftime_gmail(NextDay(end_date))
    ELSE strftime_gmail(end_date)

\* GmailAPIClient.search_emails_by_sender_date_range: the date-bounded query,
\* the diagnostic query without dates when it finds nothing, and the
\* messages of the bounded query
gmail_search_emails_by_sender_date_range(box, sender_email, start_date, end_date, lim) ==
    LET query == Query(sender_email, strftime_gmail(start_date),
                       IF end_date # NoDate THEN before_term(start_date, end_date)
                       ELSE NoTerm)
        messages == GmailList(box, query, IF lim # 0 THEN lim ELSE DateRangeMaxResults)
        fallback_query == Query(sender_email, NoTerm, NoTerm)
        fallback_messages == GmailList(box, fallback_query, FallbackMaxResults)
    IN  [sent     |-> IF messages = <<>> THEN <<query, fallback_query>> ELSE <<query>>,
         fetched  |-> messages,
         yielded  |-> messages,
         fallback |-> IF messages = <<>> THEN fallback_messages ELSE <<>>]

\* a manual integration: the IMAP fields of its row
ManualIntegration(id, port, use_ssl) ==
    [id |-> id, integration_type |-> "manual",
     email_server |-> "imap.example.com", email_port |-> port, email_use_ssl |-> use_ssl,
     email_username |-> "user@example.com", email_key |-> "secret"]

ManualIntegrations ==
    { ManualIntegration(5, port, use_ssl) : port \in {143, 993}, use_ssl \in BOOLEAN }

NoIntegration ==
    [id |-> 0, integration_type |-> "none", email_server |-> "", email_port |-> 0,
     email_use_ssl |-> FALSE, email_username |-> "", email_key |-> ""]

\* EmailIntegration.get_imap_config, for a manual integration
get_imap_config(integ) ==
    [server |-> integ.email_server, port |-> integ.email_port,
     use_ssl |-> integ.email_use_ssl, username |-> integ.email_username,
     password |-> integ.email_key]

\* the account of the settings, which __enter__ falls back to
SettingsSession ==
    [server |-> "imap.gmail.com", port |-> 993, use_ssl |-> TRUE,
     username |-> "settings", password |-> "settings"]

NoSession == [server |-> "", port |-> 0, use_ssl |-> FALSE, username |-> "", password |-> ""]

\* EmailClient.__enter__: the server and the login the session is opened with
SessionOf(config) ==
    IF config.server # "" /\ config.username # "" /\ config.password # ""
    THEN [server |-> config.server,
          port |-> IF config.port # 0 THEN config.port ELSE 993,
          use_ssl |-> config.use_ssl,
          username |-> config.username, password |-> config.password]
    ELSE SettingsSession

\* the parameters the two sender searches of EmailClient take
ImapParameters(operation) ==
    IF operation = "search_emails_by_sender_date_range"
    THEN {"sender_email", "start_date", "end_date"}
    ELSE {"sender_email", "limit"}

\* a call with keyword arguments binds when every keyword is a parameter;
\* otherwise it raises TypeError
Binds(operation, keywords) == keywords \subseteq ImapParameters(operation)

\* nothing retrieved
NothingRetrieved == Retrieved(<<>>, <<>>, <<>>)

\* the manual branch of MultiAccountEmailClient.process_integration_emails:
\* the client is built from get_imap_config and entered, the search is
\* chosen by the arguments, its messages are yielded; any exception is
\* logged and ends the stream
manual_process_integration_emails(box, integ, sender_email, start_date, end_date, lim, connect_ok) ==
    LET session == SessionOf(get_imap_config(integ))
        out == IF ~connect_ok THEN NothingRetrieved
               ELSE IF start_date # NoDate /\ end_date # NoDate
               THEN IF Binds("search_emails_by_sender_date_range",
                             {"sender_email", "start_date", "end_date", "limit"})
                    THEN imap_search_emails_by_sender_date_range(box, sender_email,
                                                                 start_date, end_date)
                    ELSE NothingRetrieved
               ELSE IF lim # 0
               THEN IF Binds("search_emails_by_sender", {"sender_email", "limit"})
                    THEN imap_search_emails_by_sender(box, sender_email, lim)
                    ELSE NothingRetrieved
               ELSE IF Binds("search_emails_by_sender", {"sender_email"})
               THEN imap_search_emails_by_sender(box, sender_email, 0)
               ELSE NothingRetrieved
    IN  [session |-> session, sent |-> out.sent, fetched |-> out.fetched,
         yielded |-> out.yielded]

\* no retrieval call made
NoSearch ==
    [op |-> "none", sender |-> "", start_date |-> NoDate, end_date |-> NoDate, limit |-> 0,
     integration |-> NoIntegration, connected |-> FALSE, session |-> NoSession,
     sent |-> <<>>, fetched |-> <<>>, yielded |-> <<>>, fallback |-> <<>>]

SearchIdle == mailbox = <<>> /\ search = NoSearch

(***************************************************************************)
(* The Normalizer's choice of email_date.  A timestamp is a day, the       *)
(* seconds since midnight and the UTC offset it was written with ("" for a *)
(* naive one).                                                             *)
(***************************************************************************)
\* None, for a timestamp
NoStamp == [day |-> 0, time |-> 0, tz |-> "None"]

Stamp(day, time, tz) == [day |-> day, time |-> time, tz |-> tz]

\* the last day of the timestamps
MaxDay == 2

\* what a parser puts in transaction_date: nothing, a date at midnight
\* (CashAppParser writes '%Y-%m-%dT00:00:00') or a date with a time
ParserStamps ==
    {NoStamp} \cup { Stamp(d, t, "") : d \in 1..MaxDay, t \in {0, 1, 43200} }

\* what a Date: or Received: header holds: nothing that parses, or a
\* timestamp with its offset
HeaderStamps ==
    {NoStamp} \cup { Stamp(d, t, "+0000") : d \in 1..MaxDay, t \in {0, 43200} }

\* _extract_datetime_from_raw_email on raw_email_data and then, when that
\* finds nothing, on the headers of the message
extract_datetime(raw_date, header_date) ==
    IF raw_date # NoStamp THEN raw_date ELSE header_date

\* the header timestamp preferred whenever there is one
prefer_header_always(email_date, extracted) == extracted # NoStamp

\* prefer_header: there is a header timestamp, and the parser gave no date
\* or one at 00:00:00
prefer_header(email_date, extracted) ==
    /\ extracted # NoStamp
    /\ \/ email_date = NoStamp
       \/ email_date.time = 0

\* a value no date format parses
Unparsed == [day |-> 0, time |-> 0, tz |-> "invalid"]

\* dateutil's parse, then fromisoformat and the strptime formats: the
\* timestamp a value spells, None for one that spells none
parse_date(value) == IF value = Unparsed THEN NoStamp ELSE value

\* what a parser may leave under the key email_date
EmailDateKeys == {NoStamp, Unparsed, Stamp(1, 43200, "")}

\* the timestamp read from the parser's output: transaction_date or else
\* email_date, and email_date again when the first did not parse
parser_email_date(transaction_date, email_date_key) ==
    LET txn_date == IF transaction_date # NoStamp THEN transaction_date ELSE email_date_key
        first == parse_date(txn_date)
    IN  IF first = NoStamp /\ email_date_key # NoStamp THEN parse_date(email_date_key) ELSE first

\* the part of _normalize_transaction_data that sets email_date and
\* email_date_source
normalize_email_date(transaction_date, email_date_key, raw_date, header_date) ==
    LET parser_date == parser_email_date(transaction_date, email_date_key)
        extracted == extract_datetime(raw_date, header_date)
        raw_used_for_parsing == prefer_header(parser_date, extracted)
        email_date == IF raw_used_for_parsing THEN extracted ELSE parser_date
    IN  [email_date |-> email_date,
         email_date_source |-> IF email_date = NoStamp THEN "None"
                               ELSE IF raw_used_for_parsing THEN "raw_headers"
                               ELSE "parsed"]

NoNormalized ==
    [called |-> FALSE, transaction_date |-> NoStamp, key |-> NoStamp, raw_date |-> NoStamp,
     header_date |-> NoStamp, email_date |-> NoStamp, email_date_source |-> "None"]

NormIdle == normalized = NoNormalized

IoIdle == SessionIdle /\ SinkIdle /\ BatchIdle /\ LimitIdle /\ SearchIdle /\ NormIdle

\* the variables of the parser chain when no single message is followed
NoMessage == Message(NoHeader, NoHeader, <<>>, <<>>, <<>>, 0)

ParseIdle ==
    /\ msg = NoMessage
    /\ parser = "None"
    /\ parsed = NoneResult
    /\ stage = "idle"

CoreIdle == ParseIdle /\ ListIdle /\ StoreIdle /\ RefreshIdle /\ RunIdle

InitParse ==
    /\ msg \in Messages
    /\ parser = "None"
    /\ parsed = NoneResult
    /\ stage = "new"
    /\ ListIdle
    /\ StoreIdle
    /\ RefreshIdle
    /\ RunIdle
    /\ IoIdle

FindParser ==
    /\ stage = "new"
    /\ parser' = find_parser_for_email(msg)
    /\ stage' = "found"
    /\ UNCHANGED <<ioVars, msg, parsed, listVars, store, now, refreshVars, runVars>>

Parse ==
    /\ stage = "found"
    /\ parser # "None"
    /\ parsed' = ParseWith(parser, msg)
    /\ stage' = "parsed"
    /\ UNCHANGED <<ioVars, msg, parser, listVars, store, now, refreshVars, runVars>>

NextParse == FindParser \/ Parse

SpecParse == InitParse /\ [][NextParse]_vars

(***************************************************************************)
(* SpecList: TransactionProcessor._process_email_list                      *)
(***************************************************************************)
\* the messages the lists are drawn from: two notices with the same number,
\* one with another number, one without a number, one of another service,
\* one that is no payment at all
ListCatalogue ==
    {Message(CashFrom, BobTo, <<"Payment", "received">>, RecvTxn("$123.45", <<"Jane", "Smith">>, "#D-AAA"), <<>>, 1),
     Message(CashFrom, BobTo, <<"Payment", "received">>, RecvTxn("$1,234.56", <<"David">>, "#D-AAA"), <<>>, 2),
     Message(CashFrom, BobTo, <<"Payment", "received">>, RecvTxn("$123.45", <<"David">>, "D-BBB"), <<>>, 1),
     Message(CashFrom, BobTo, <<"Payment", "received">>, Recv("$123.45", <<"Jane", "Smith">>), <<>>, 1),
     Message(VenmoFrom, BobTo, <<"Venmo", "transfer">>, Paid("$123.45", <<"David">>), <<>>, 1),
     Message(VenmoFrom, BobTo, <<"Venmo", "transfer">>, <<"Hello", "world">>, <<>>, 1)}

\* the messages an account can hold: a Cash App notice with a number, a
\* Venmo notice for the generic parser, a message no parser accepts
RunCatalogue ==
    {Message(CashFrom, BobTo, <<"Payment", "received">>, RecvTxn("$123.45", <<"Jane", "Smith">>, "#D-AAA"), <<>>, 1),
     Message(VenmoFrom, BobTo, <<"Venmo", "transfer">>, Paid("$123.45", <<"David">>), <<>>, 1),
     Message(VenmoFrom, BobTo, <<"Venmo", "transfer">>, <<"Hello", "world">>, <<>>, 1)}

\* every message of the two catalogues with the parser the factory finds for
\* it and what that parser returns
Inbox == ListCatalogue \cup RunCatalogue

ChainOf(p, m) ==
    [parser |-> p, data |-> IF p = "None" THEN NoneResult ELSE ParseWith(p, m)]

Chain == [m \in Inbox |-> ChainOf(find_parser_for_email(m), m)]

\* the longest list handed to _process_email_list
MaxEmails == 3

EmailLists == UNION {[1..n -> ListCatalogue] : n \in 0..MaxEmails}

\* TransactionProcessor._normalize_transaction_data, as far as the fields of
\* the model go: the id, the parties and the amount are carried over
_normalize_transaction_data(data, m) ==
    [transaction_id |-> data.transaction_id, sender |-> data.sender,
     recipient |-> data.paid_to, amount |-> data.amount,
     source_provider |-> data.source_provider, email_date |-> data.date]

\* the entry _build_failed_entry makes for a message
_build_failed_entry(m, error) == [subject |-> m.subject, from |-> m.from.addr, error |-> error]

\* results after one more error
WithError(r, m, error) ==
    [r EXCEPT !.errors = @ + 1,
              !.failed_emails = Append(@, _build_failed_entry(m, error))]

\* one iteration of the loop of _process_email_list on message m.  A
\* Transaction object (GenericPaymentParser) has no get(): the AttributeError
\* is caught by the per-message handler and counted as an error
ProcessOne(r, seen, m, found) ==
    LET p    == found.parser
        td   == found.data
        r1   == [r EXCEPT !.processed_emails = @ + 1]
    IN  IF p = "None" THEN <<WithError(r1, m, "no parser found"), seen>>
        ELSE IF td.kind = "None" THEN <<WithError(r1, m, "failed to parse transaction"), seen>>
        ELSE IF td.kind = "orm"
        THEN <<WithError(r1, m, "'Transaction' object has no attribute 'get'"), seen>>
        ELSE IF td.transaction_id \in seen
        THEN <<[r1 EXCEPT !.duplicate_transactions =
                    Append(@, [transaction_id |-> td.transaction_id])], seen>>
        ELSE <<[r1 EXCEPT !.new_transactions = @ + 1,
                          !.transactions = Append(@, _normalize_transaction_data(td, m))],
               seen \cup {td.transaction_id}>>

\* the summary message _process_email_list sets after the loop
SummaryOf(r) ==
    IF r.new_transactions > 0 /\ r.duplicate_transactions # <<>> THEN "new and duplicate"
    ELSE IF r.new_transactions > 0 THEN "new"
    ELSE IF r.duplicate_transactions # <<>> THEN "all duplicate"
    ELSE "none"

InitList ==
    /\ emails \in EmailLists
    /\ pos = 1
    /\ results = EmptyResults
    /\ seen_ids = {}
    /\ ParseIdle
    /\ StoreIdle
    /\ RefreshIdle
    /\ RunIdle
    /\ IoIdle

\* the body of 'for email_msg in emails'
ProcessEmail ==
    /\ pos >= 1 /\ pos <= Len(emails)
    /\ \E out \in {ProcessOne(results, seen_ids, emails[pos], Chain[emails[pos]])} :
         /\ results' = out[1]
         /\ seen_ids' = out[2]
    /\ pos' = pos + 1
    /\ UNCHANGED <<ioVars, emails, parseVars, store, now, refreshVars, runVars>>

\* after the loop: the message is set and the results are returned
ReturnResults ==
    /\ pos = Len(emails) + 1
    /\ results.message = ""
    /\ results' = [results EXCEPT !.message = SummaryOf(results)]
    /\ UNCHANGED <<ioVars, emails, pos, seen_ids, parseVars, store, now, refreshVars, runVars>>

NextList == ProcessEmail \/ ReturnResults

SpecList == InitList /\ [][NextList]_vars

\* message k of the list was claimed by a parser and parsed successfully
Handled(k) ==
    /\ Chain[emails[k]].parser # "None"
    /\ Chain[emails[k]].data.kind # "None"

IdOf(k) == Chain[emails[k]].data.transaction_id

\* message k is the first of the list to parse with its transaction id
FirstOfItsId(k) == \A j \in 1..(k - 1) : Handled(j) => IdOf(j) # IdOf(k)

\* C1: among the messages processed so far, the first to parse with a given
\* transaction id is in transactions (once) and counted new, every later one
\* is in duplicate_transactions and not in transactions; new + duplicates is
\* the number of messages a parser claimed and parsed; processed = new +
\* duplicates + errors.
C1_RunDedup ==
    LET n   == results.processed_emails
        new == results.new_transactions
        dup == Len(results.duplicate_transactions)
    IN  /\ new + dup = Cardinality({k \in 1..n : Handled(k)})
        /\ n = new + dup + results.errors
        /\ new = Len(results.transactions)
        /\ \A k \in 1..n : Handled(k) =>
             /\ Cardinality({i \in 1..new : results.transactions[i].transaction_id = IdOf(k)}) = 1
             /\ ~FirstOfItsId(k) =>
                  \E i \in 1..dup : results.duplicate_transactions[i].transaction_id = IdOf(k)

\* a Cash App notice 'You received $<A> from <Name>' with a positive amount,
\* subject 'Payment received', and no transaction number in any part
PlainReceipt(m) ==
    /\ m.from = CashFrom
    /\ m.subject = <<"Payment", "received">>
    /\ m.html = <<>>
    /\ \E a \in AmountToks, n \in Names :
         m.body = Recv(a, n) /\ FloatCents(StripCommas(AmountText[a])) > 0

\* the amount and the name such a notice states
StatedAmount(m) == FloatCents(StripCommas(AmountText[m.body[3]]))

StatedName(m) == From(m.body, 5)

\* C5: whichever parser handles a message, a transaction it returns carries a
\* transaction number read from the message, and its identifier is that number,
\* never null and never synthesized from other fields.
C5_NumberIsReal ==
    (stage = "parsed" /\ parsed.kind # "None") =>
        /\ parsed.transaction_number # <<>>
        /\ parsed.transaction_id = ExtractedId(parsed.transaction_number)

\* C6: for a Cash App notice 'You received $<A> from <Name>' without a
\* transaction number, parse_transaction returns a transaction with amount A
\* and sender Name that passes validate_transaction_data.
C6_PlainReceiptParses ==
    (stage = "parsed" /\ PlainReceipt(msg)) =>
        /\ parsed.kind # "None"
        /\ parsed.amount = StatedAmount(msg)
        /\ parsed.sender = StatedName(msg)
        /\ validate_transaction_data(parsed)

\* the result of one iteration of _process_email_list on the message, when
\* the factory returned parser p and its parse_transaction returned data
CountedAsError(m, p, data) ==
    LET out == ProcessOne(EmptyResults, {}, m, [parser |-> p, data |-> data])[1]
    IN  out.errors = 1 /\ out.transactions = <<>> /\ Len(out.failed_emails) = 1

\* C22: the parser the factory returns is CashAppParser when its can_parse
\* accepts the message, else GenericPaymentParser when its can_parse accepts,
\* else none; parse_transaction is called on that parser only, and its result
\* stands even when it is None and a later parser would have returned a
\* transaction; a message without a parser, or whose parser returned None,
\* is counted as one error
C22_FirstMatchWins ==
    /\ (stage \in {"found", "parsed"}) =>
          parser = IF can_parse(msg) THEN "cashapp"
                   ELSE IF Generic_can_parse(msg) THEN "generic_payment"
                   ELSE "None"
    /\ (stage = "parsed") =>
          /\ parser # "None"
          /\ parsed = IF can_parse(msg) THEN parse_transaction(msg)
                      ELSE Generic_parse_transaction(msg)
          /\ (parsed = NoneResult) => CountedAsError(msg, parser, parsed)
    /\ (stage = "found" /\ parser = "None") =>
          /\ parsed = NoneResult
          /\ ~ENABLED Parse
          /\ CountedAsError(msg, parser, parsed)

\* both parsers accept the message, CashAppParser returned None and
\* GenericPaymentParser would have returned a transaction
C22_Witness ==
    /\ stage = "parsed"
    /\ parser = "cashapp"
    /\ parsed = NoneResult
    /\ Generic_can_parse(msg)
    /\ Generic_parse_transaction(msg) # NoneResult

\* C29: CashAppParser.can_parse is false for every message whose subject or
\* body holds a promotional keyword, whichever signal the message matches
\* otherwise (sender or indicator, subject pattern, body pattern): such a
\* message never gets the cashapp parser
C29_PromotionalGate ==
    (stage \in {"found", "parsed"}
        /\ (Promotional(msg.subject) \/ Promotional(extract_email_body(msg)))) =>
        /\ ~can_parse(msg)
        /\ parser # "cashapp"

\* C30: _extract_transaction_number never returns a UUID-shaped token,
\* whichever source gave the candidate (label on the same line, following
\* line, '#D-' / '/payments/<id>' / '#<id>' fallbacks, URL id), and a message
\* whose only candidate is UUID-shaped does not parse: no transaction the
\* cashapp parser returns carries a UUID as its number
C30_UuidRejected ==
    (stage = "parsed" /\ parser = "cashapp") =>
        LET number == _extract_transaction_number(extract_email_body(msg), msg.subject)
        IN  /\ \A i \in 1..Len(number) : ~IsUuid(number[i])
            /\ \A i \in 1..Len(parsed.transaction_number) : ~IsUuid(parsed.transaction_number[i])

\* ---------------------------------------------------------------------------
\* OAuth token refresh.  Times are minutes on one UTC clock; an access token
\* is a positive number and 0 stands for None.
\* ---------------------------------------------------------------------------

\* None, for a time
NoTime == 0 - 1

\* the 5-minute buffer of is_token_expired
BufferMinutes == 5

\* the provider's default lifetime of a new token, 3600 seconds
DefaultExpiresIn == 60

\* is_token_expired with the buffer left out
is_token_expired_no_buffer(expiry_time, current_time) ==
    IF expiry_time = NoTime THEN TRUE ELSE current_time >= expiry_time

\* OAuthTokenManager.is_token_expired, the clock read passed in
is_token_expired(expiry_time, current_time) ==
    IF expiry_time = NoTime
    THEN TRUE
    ELSE current_time >= expiry_time - BufferMinutes

\* the forms oauth_token_expiry takes: None, a string fromisoformat rejects,
\* an ISO string, a datetime
NoExpiry == [kind |-> "none", t |-> NoTime]

BadExpiry == [kind |-> "bad", t |-> NoTime]

IsoExpiry(t) == [kind |-> "iso", t |-> t]

DatetimeExpiry(t) == [kind |-> "datetime", t |-> t]

\* the expiry-parsing block of refresh_oauth_token_if_needed
ParseExpiry(e) ==
    CASE e.kind = "iso" -> e.t
      [] e.kind = "datetime" -> e.t
      [] OTHER -> NoTime

\* datetime.isoformat() of a new expiry, as written to the store
isoformat(t) == IF t = NoTime THEN NoExpiry ELSE IsoExpiry(t)

\* what the token endpoint can answer to one POST
AnswerKinds == {"ok", "no_token", "http_error", "exception"}

\* OAuthTokenManager.refresh_access_token: (token, expiry, error, posted)
RefreshError(error) ==
    [token |-> 0, expiry |-> NoTime, error |-> error, posted |-> FALSE]

refresh_access_token(refresh_token, has_credentials, answer, issued, current_time) ==
    IF refresh_token = ""
    THEN RefreshError("No refresh token provided")
    ELSE IF ~has_credentials
    THEN RefreshError("Google OAuth credentials not configured")
    ELSE CASE answer = "ok" ->
                [token |-> issued, expiry |-> current_time + DefaultExpiresIn,
                 error |-> "", posted |-> TRUE]
           [] answer = "no_token" ->
                [token |-> 0, expiry |-> current_time + DefaultExpiresIn,
                 error |-> "", posted |-> TRUE]
           [] answer = "http_error" ->
                [token |-> 0, expiry |-> NoTime,
                 error |-> "Failed to refresh token", posted |-> TRUE]
           [] OTHER ->
                [token |-> 0, expiry |-> NoTime,
                 error |-> "Exception during token refresh", posted |-> TRUE]

\* the local object after a refresh that assigns it before the store is written
update_local_first(integ, token, expiry, write_ok) ==
    [integ EXCEPT !.oauth_access_token = token,
                  !.oauth_token_expiry = DatetimeExpiry(expiry)]

\* the write-back block of refresh_oauth_token_if_needed: the local object is
\* assigned after the store update, inside the same try
update_local(integ, token, expiry, write_ok) ==
    IF write_ok
    THEN [integ EXCEPT !.oauth_access_token = token,
                       !.oauth_token_expiry = DatetimeExpiry(expiry)]
    ELSE integ

\* the row after the store update of a refreshed token
update_row(row, token, expiry) ==
    [row EXCEPT !.oauth_access_token = token,
                !.oauth_token_expiry = isoformat(expiry)]

\* EmailIntegrationManager.refresh_oauth_token_if_needed: the value returned,
\* the integration object afterwards, and what the call did
refresh_oauth_token_if_needed(integ, has_credentials, answer, write_ok, current_time) ==
    LET idle == [ret |-> TRUE, integration |-> integ, exchanged |-> FALSE,
                 posted |-> FALSE, write |-> "none", token |-> 0, expiry |-> NoTime]
        expiry_time == ParseExpiry(integ.oauth_token_expiry)
        new == refresh_access_token(integ.oauth_refresh_token, has_credentials,
                                    answer, integ.oauth_access_token + 1, current_time)
    IN  IF integ.integration_type # "oauth"
        THEN idle
        ELSE IF ~is_token_expired(expiry_time, current_time)
        THEN idle
        ELSE IF new.error # "" \/ new.token = 0
        THEN [idle EXCEPT !.ret = FALSE, !.exchanged = TRUE, !.posted = new.posted]
        ELSE [ret |-> write_ok,
              integration |-> update_local(integ, new.token, new.expiry, write_ok),
              exchanged |-> TRUE,
              posted |-> new.posted,
              write |-> IF write_ok THEN "ok" ELSE "failed",
              token |-> new.token,
              expiry |-> new.expiry]

\* the store after the call
StoreAfter(st, id, done) ==
    IF done.write = "ok"
    THEN [st EXCEPT ![id] = update_row(st[id], done.token, done.expiry)]
    ELSE st

\* ---------------------------------------------------------------------------
\* SpecRefresh: refresh_oauth_token_if_needed called on one integration as the
\* clock advances.
\* ---------------------------------------------------------------------------

MaxExpiry == 10

MaxNow == 6

MaxCalls == 2

\* EmailIntegration(data): the object built from a row
EmailIntegration(row) == row

\* rows of api.email_integrations; the expiry column holds null or a string
Row(id, type, active, refresh_token, expiry) ==
    [id |-> id, user_id |-> 10 + id, integration_type |-> type, is_active |-> active,
     oauth_access_token |-> 1, oauth_refresh_token |-> refresh_token,
     oauth_token_expiry |-> expiry, last_sync_at |-> NoTime]

StoredExpiries == {NoExpiry, BadExpiry} \cup {IsoExpiry(t) : t \in 0..MaxExpiry}

RefreshRows ==
    {Row(1, type, TRUE, rt, e) :
        type \in {"oauth", "manual"}, rt \in {"", "rt"}, e \in StoredExpiries}

InitRefresh ==
    /\ \E row \in RefreshRows :
         /\ store = <<row>>
         /\ integration = EmailIntegration(row)
    /\ now = 0
    /\ configured \in BOOLEAN
    /\ ret = "none"
    /\ call = <<>>
    /\ ParseIdle
    /\ ListIdle
    /\ RunIdle
    /\ IoIdle

RefreshIfNeeded ==
    /\ Len(call) < MaxCalls
    /\ \E answer \in AnswerKinds, write_ok \in BOOLEAN :
         LET done == refresh_oauth_token_if_needed(integration, configured,
                                                   answer, write_ok, now)
         IN  /\ ret' = IF done.ret THEN "true" ELSE "false"
             /\ integration' = done.integration
             /\ store' = StoreAfter(store, integration.id, done)
             /\ call' = Append(call, [before |-> integration, at |-> now,
                                      ret |-> done.ret,
                                      exchanged |-> done.exchanged,
                                      posted |-> done.posted,
                                      write |-> done.write])
    /\ UNCHANGED <<ioVars, now, configured, parseVars, listVars, runVars>>

Tick ==
    /\ now < MaxNow
    /\ now' = now + 1
    /\ UNCHANGED <<ioVars, store, refreshVars, parseVars, listVars, runVars>>

NextRefresh == RefreshIfNeeded \/ Tick

SpecRefresh == InitRefresh /\ [][NextRefresh]_vars

\* the expiry a call saw, and the minutes it lay after the call's clock
SeenExpiry(c) == ParseExpiry(c.before.oauth_token_expiry)

KnownExpiry(c) ==
    c.before.integration_type = "oauth" /\ SeenExpiry(c) # NoTime

\* C7: for an OAuth integration with a known expiry, the call performs the
\* token-refresh exchange when the expiry is less than 5 minutes after the
\* current time, and performs no exchange and no store write when it is more
\* than 5 minutes after the current time.
C7_RefreshThreshold ==
    \A i \in 1..Len(call) :
        KnownExpiry(call[i]) =>
            /\ SeenExpiry(call[i]) < call[i].at + 5 =>
                 /\ call[i].exchanged
                 /\ (call[i].before.oauth_refresh_token # "" /\ configured)
                        => call[i].posted
            /\ SeenExpiry(call[i]) > call[i].at + 5 =>
                 /\ ~call[i].exchanged
                 /\ ~call[i].posted
                 /\ call[i].write = "none"

\* one call 4 minutes before expiry that exchanged, one 10 minutes before
\* expiry that did not
C7_Witness ==
    \E i, j \in 1..Len(call) :
        /\ KnownExpiry(call[i]) /\ KnownExpiry(call[j])
        /\ SeenExpiry(call[i]) = call[i].at + 4 /\ call[i].posted
        /\ SeenExpiry(call[j]) = call[j].at + 10 /\ ~call[j].exchanged

\* C8: whenever the call returns false, the in-memory integration's access
\* token and expiry are exactly what they were before the call.
C8_FailedRefreshFrame ==
    (ret = "false") =>
        /\ integration.oauth_access_token = call[Len(call)].before.oauth_access_token
        /\ integration.oauth_token_expiry = call[Len(call)].before.oauth_token_expiry

\* a call that obtained a new token and failed to write it back
C8_Witness ==
    /\ ret = "false"
    /\ call[Len(call)].write = "failed"
    /\ call[Len(call)].posted

\* ---------------------------------------------------------------------------
\* Spec: multi-account runs.  MultiAccountTransactionProcessor consumes the
\* generator MultiAccountEmailClient.process_all_integrations_emails; a run
\* advances one network exchange at a time.
\* ---------------------------------------------------------------------------

MaxRuns == 2

MaxMessages == 2

\* minutes between two runs
RunGap == 6

\* the store: three active OAuth accounts, the first with a fresh token and
\* the others with a stale one, an inactive OAuth account and an active manual
\* one
RunStores ==
    {<<Row(1, "oauth", TRUE, "rt", IsoExpiry(e[1])),
       Row(2, "oauth", TRUE, "rt", IsoExpiry(e[2])),
       Row(3, "oauth", TRUE, "rt", IsoExpiry(e[3])),
       Row(4, "oauth", FALSE, "rt", IsoExpiry(0)),
       Row(5, "manual", TRUE, "", NoExpiry)>> :
        e \in {<<MaxExpiry, 0, 0>>}}

\* the listing without the is_active filter of the query
get_oauth_integrations(st, query_ok) ==
    IF query_ok
    THEN SelectSeq([i \in 1..Len(st) |-> EmailIntegration(st[i])],
                   LAMBDA r : r.integration_type = "oauth")
    ELSE <<>>

\* EmailIntegrationManager.get_active_oauth_integrations; [] when the query raises
get_active_oauth_integrations(st, query_ok) ==
    IF query_ok
    THEN SelectSeq([i \in 1..Len(st) |-> EmailIntegration(st[i])],
                   LAMBDA r : r.integration_type = "oauth" /\ r.is_active)
    ELSE <<>>

\* MultiAccountTransactionProcessor._process_email: None, or the parsed
\* transaction (the dictionary, or the Transaction object's __dict__) with the
\* integration's id and user id added
NoTransaction ==
    [data |-> NoneResult, integration_id |-> 0, integration_user_id |-> 0]

\* the same with the row id written where the user id belongs
_process_email_by_id(m, integ, found) ==
    LET p  == found.parser
        td == found.data
    IN  IF p = "None" THEN NoTransaction
        ELSE IF td.kind = "None" THEN NoTransaction
        ELSE [data |-> td, integration_id |-> integ.id,
              integration_user_id |-> integ.id]

_process_email(m, integ, found) ==
    LET p  == found.parser
        td == found.data
    IN  IF p = "None" THEN NoTransaction
        ELSE IF td.kind = "None" THEN NoTransaction
        ELSE [data |-> td, integration_id |-> integ.id,
              integration_user_id |-> integ.user_id]

\* the body of the loop of process_emails_by_sender and of
\* process_emails_by_sender_date_range
Consume(r, m, integ, found) ==
    LET transaction == _process_email(m, integ, found)
        r1 == [r EXCEPT !.processed_emails = @ + 1]
    IN  IF transaction # NoTransaction
        THEN [r1 EXCEPT !.transactions = Append(@, transaction),
                        !.new_transactions = @ + 1]
        ELSE [r1 EXCEPT !.errors = @ + 1,
                        !.Erros = Append(@, [email_subject |-> m.subject,
                                             from |-> m.from,
                                             error |-> "Failed to parse transaction"])]

\* the message set once the generator is exhausted
Finish(r) ==
    [r EXCEPT !.message = IF r.new_transactions > 0
                          THEN "Successfully processed new transactions"
                          ELSE "No new transactions found"]

\* a refresh failure that does not end the integration's turn
never_skip(refreshed) == FALSE

\* process_integration_emails returns before any client is built when the
\* refresh returned false
skip_on_refresh_failure(refreshed) == ~refreshed

\* update_last_sync placed in the finally block
update_last_sync_always(how) == TRUE

\* process_integration_emails reaches update_last_sync only past the end of
\* the loop over the retriever's messages
update_last_sync_reached(how) == how = "exhausted"

\* a run that stops at the first integration that raises
stop_on_raise(c, n, how) == IF how = "raised" THEN n + 1 ELSE c + 1

\* the loop of process_all_integrations_emails moves to the next integration
\* however the previous one ended
next_integration(c, n, how) == c + 1

\* EmailIntegrationManager.update_last_sync: best effort
update_last_sync(st, id, write_ok, current_time) ==
    IF write_ok THEN [st EXCEPT ![id].last_sync_at = current_time] ELSE st

Init ==
    /\ store \in RunStores
    /\ now = 0
    /\ RunIdle
    /\ RefreshIdle
    /\ ParseIdle
    /\ ListIdle
    /\ IoIdle

\* the log entry of the integration being processed
Entry == log[Len(log)]

\* the integration's turn ends: how it ended, whether last_sync_at is
\* written, and where the run goes next
EndTurn(how, sync_ok) ==
    LET synced == update_last_sync_reached(how)
        c2     == next_integration(cur, Len(integrations), how)
    IN  /\ log' = [log EXCEPT ![Len(log)].ended = how,
                              ![Len(log)].synced = IF synced THEN 1 ELSE 0]
        /\ store' = IF synced
                    THEN update_last_sync(store, integrations[cur].id, sync_ok, now)
                    ELSE store
        /\ cur' = c2
        /\ pc' = IF c2 > Len(integrations) THEN "finished" ELSE "next"
        /\ runres' = IF c2 > Len(integrations) THEN Finish(runres) ELSE runres

\* a request arrives: process_emails_by_sender or
\* process_emails_by_sender_date_range (the two bodies are the same, and so is
\* what the generator does with the dates it is handed) starts and the
\* generator lists the integrations; with none listed the run is over at once
StartRun ==
    /\ pc \in {"idle", "finished", "aborted"}
    /\ run.n < MaxRuns
    /\ \E query_ok \in BOOLEAN :
         LET listed == get_active_oauth_integrations(store, query_ok)
         IN  /\ run' = [run EXCEPT !.n = @ + 1]
             /\ integrations' = listed
             /\ pc' = IF listed = <<>> THEN "finished" ELSE "next"
             /\ runres' = IF listed = <<>> THEN Finish(EmptyRunResults)
                          ELSE EmptyRunResults
    /\ cur' = 1
    /\ prevFailed' = {log[k].id : k \in {j \in 1..Len(log) : log[j].refresh = "failed"}}
    /\ log' = <<>>
    /\ UNCHANGED <<ioVars, store, now, refreshVars, parseVars, listVars>>

\* process_integration_emails starts on the next integration: the token is
\* refreshed if needed; on failure the integration is skipped
RefreshStep ==
    /\ pc = "next"
    /\ cur <= Len(integrations)
    /\ \E answer \in {"ok", "http_error"}, write_ok \in BOOLEAN :
         LET integ == integrations[cur]
             done  == refresh_oauth_token_if_needed(integ, configured, answer,
                                                    write_ok, now)
             skip  == skip_on_refresh_failure(done.ret)
             c2    == IF skip THEN next_integration(cur, Len(integrations), "skipped")
                      ELSE cur
         IN  /\ integrations' = [integrations EXCEPT ![cur] = done.integration]
             /\ store' = StoreAfter(store, integ.id, done)
             /\ log' = Append(log,
                   [id |-> integ.id,
                    refresh |-> IF ~done.ret THEN "failed"
                                ELSE IF done.exchanged THEN "refreshed" ELSE "valid",
                    exchanges |-> IF done.exchanged THEN 1 ELSE 0,
                    opened |-> FALSE,
                    yielded |-> <<>>,
                    ended |-> IF skip THEN "skipped" ELSE "none",
                    synced |-> 0])
             /\ cur' = c2
             /\ pc' = IF ~skip THEN "open"
                      ELSE IF c2 > Len(integrations) THEN "finished" ELSE "next"
             /\ runres' = IF skip /\ c2 > Len(integrations)
                          THEN Finish(runres) ELSE runres
    /\ UNCHANGED <<ioVars, now, run, prevFailed, refreshVars, parseVars, listVars>>

\* the Gmail client is built, connected and the search is issued
OpenRetriever ==
    /\ pc = "open"
    /\ log' = [log EXCEPT ![Len(log)].opened = TRUE]
    /\ pc' = "stream"
    /\ UNCHANGED <<ioVars, store, now, run, integrations, cur, runres, prevFailed,
                   refreshVars, parseVars, listVars>>

\* connecting or searching raises: the exception is logged, the client closed
OpenFails ==
    /\ pc = "open"
    /\ \E sync_ok \in BOOLEAN :
         LET how    == "raised"
             synced == update_last_sync_reached(how)
             c2     == next_integration(cur, Len(integrations), how)
         IN  /\ log' = [log EXCEPT ![Len(log)].opened = TRUE,
                                   ![Len(log)].ended = how,
                                   ![Len(log)].synced = IF synced THEN 1 ELSE 0]
             /\ store' = IF synced
                         THEN update_last_sync(store, integrations[cur].id, sync_ok, now)
                         ELSE store
             /\ cur' = c2
             /\ pc' = IF c2 > Len(integrations) THEN "finished" ELSE "next"
             /\ runres' = IF c2 > Len(integrations) THEN Finish(runres) ELSE runres
    /\ UNCHANGED <<ioVars, now, run, integrations, prevFailed, refreshVars, parseVars, listVars>>

\* the retriever yields a message and the processor's loop body handles it
YieldMessage ==
    /\ pc = "stream"
    /\ run.retrieved < MaxMessages
    /\ \E m \in RunCatalogue :
         /\ runres' = Consume(runres, m, integrations[cur], Chain[m])
         /\ log' = [log EXCEPT ![Len(log)].yielded = Append(@, m)]
    /\ run' = [run EXCEPT !.retrieved = @ + 1]
    /\ UNCHANGED <<ioVars, store, now, pc, integrations, cur, prevFailed,
                   refreshVars, parseVars, listVars>>

\* the retriever raises between two messages
MidStreamFails ==
    /\ pc = "stream"
    /\ \E sync_ok \in BOOLEAN : EndTurn("raised", sync_ok)
    /\ UNCHANGED <<ioVars, now, run, integrations, prevFailed, refreshVars, parseVars, listVars>>

\* the retriever has no more messages
Exhaust ==
    /\ pc = "stream"
    /\ \E sync_ok \in BOOLEAN : EndTurn("exhausted", sync_ok)
    /\ UNCHANGED <<ioVars, now, run, integrations, prevFailed, refreshVars, parseVars, listVars>>

\* the consumer stops iterating with a message in hand: the generator is
\* closed at its yield, only the finally block runs, and the run returns nothing
Abandon ==
    /\ pc = "stream"
    /\ Entry.yielded # <<>>
    /\ \E sync_ok \in BOOLEAN :
         LET how    == "abandoned"
             synced == update_last_sync_reached(how)
         IN  /\ log' = [log EXCEPT ![Len(log)].ended = how,
                                   ![Len(log)].synced = IF synced THEN 1 ELSE 0]
             /\ store' = IF synced
                         THEN update_last_sync(store, integrations[cur].id, sync_ok, now)
                         ELSE store
    /\ pc' = "aborted"
    /\ UNCHANGED <<ioVars, now, run, integrations, cur, runres, prevFailed,
                   refreshVars, parseVars, listVars>>

\* time passes between two runs
Wait ==
    /\ pc \in {"finished", "aborted"}
    /\ now + RunGap <= MaxNow
    /\ now' = now + RunGap
    /\ UNCHANGED <<ioVars, store, runVars, refreshVars, parseVars, listVars>>

Next ==
    \/ StartRun
    \/ RefreshStep
    \/ OpenRetriever
    \/ OpenFails
    \/ YieldMessage
    \/ MidStreamFails
    \/ Exhaust
    \/ Abandon
    \/ Wait

Spec == Init /\ [][Next]_vars

\* the ids of a sequence of integrations or log entries, in order
IdsOf(seq) == [k \in 1..Len(seq) |-> seq[k].id]

\* the messages of a sequence the parser chain turns into a transaction
Parses(m) == Chain[m].parser # "None" /\ Chain[m].data.kind # "None"

Parsing(seq) == SelectSeq(seq, Parses)

NotParsing(seq) == SelectSeq(seq, LAMBDA m : ~Parses(m))

\* the transactions of the run result that carry integration id
TransactionsOf(id) == SelectSeq(runres.transactions, LAMBDA t : t.integration_id = id)

\* the transactions the messages an integration yielded stand for
ExpectedOf(entry) ==
    [k \in 1..Len(Parsing(entry.yielded)) |-> Chain[Parsing(entry.yielded)[k]].data]

\* every message the integrations of a log yielded, in order
RECURSIVE Yielded(_)
Yielded(entries) ==
    IF entries = <<>> THEN <<>> ELSE entries[1].yielded \o Yielded(Tail(entries))

\* C2: the transactions list of a finished multi-account run holds no two
\* records with the same transaction number; a message whose number was seen
\* earlier in the run is in duplicate_transactions instead.
C2_MultiAccountDedup ==
    (pc = "finished") =>
        /\ \A i, j \in 1..Len(runres.transactions) :
             (i # j /\ runres.transactions[i].data.transaction_number # <<>>) =>
                 runres.transactions[i].data.transaction_number
                     # runres.transactions[j].data.transaction_number
        /\ Len(runres.transactions) + Len(runres.duplicate_transactions)
               = Len(Parsing(Yielded(log)))

\* C3: whichever integrations raise during retrieval, a finished run has
\* attempted every listed integration in list order, and every message
\* retrieved is processed and appears in the run result under its integration.
C3_Isolation ==
    (pc = "finished") =>
        /\ IdsOf(log) = IdsOf(integrations)
        /\ runres.processed_emails = Len(Yielded(log))
        /\ Len(runres.Erros) = Len(NotParsing(Yielded(log)))
        /\ \A k \in 1..Len(log) :
             /\ Len(TransactionsOf(log[k].id)) = Len(ExpectedOf(log[k]))
             /\ \A i \in 1..Len(ExpectedOf(log[k])) :
                  TransactionsOf(log[k].id)[i].data = ExpectedOf(log[k])[i]

\* three integrations, the second raises, the first and the third each
\* contributed a transaction
C3_Witness ==
    /\ pc = "finished"
    /\ Len(log) = 3
    /\ log[2].ended = "raised"
    /\ log[1].ended = "exhausted" /\ TransactionsOf(log[1].id) # <<>>
    /\ log[3].ended = "exhausted" /\ TransactionsOf(log[3].id) # <<>>

\* the integration a failure entry names; 0 when it names none
AttributedTo(entry) ==
    IF "integration_id" \in DOMAIN entry THEN entry.integration_id ELSE 0

FailedTurn(entry) == entry.refresh = "failed" \/ entry.ended = "raised"

\* C4: in a finished run each integration whose refresh failed or whose
\* retrieval raised has exactly one failure entry attributable to it, counted
\* in errors, and no other integration has one.
C4_FailureRecorded ==
    (pc = "finished") =>
        /\ \A k \in 1..Len(log) :
             Cardinality({i \in 1..Len(runres.Erros) :
                            AttributedTo(runres.Erros[i]) = log[k].id})
                 = IF FailedTurn(log[k]) THEN 1 ELSE 0
        /\ runres.errors >= Cardinality({k \in 1..Len(log) : FailedTurn(log[k])})

\* C9: an integration whose refresh returned false is not opened, yields
\* nothing, sees one exchange only and is not marked synced in that run; the
\* integrations after it are processed; the next run that lists it attempts
\* the exchange for it again.
C9_RefreshFailedTerminal ==
    /\ \A k \in 1..Len(log) :
         log[k].refresh = "failed" =>
             /\ ~log[k].opened
             /\ log[k].yielded = <<>>
             /\ log[k].exchanges = 1
             /\ log[k].synced = 0
    /\ \A j, k \in 1..Len(log) : j # k => log[j].id # log[k].id
    /\ (pc = "finished") =>
         /\ Len(log) = Len(integrations)
         /\ \A i \in 1..Len(integrations) :
              integrations[i].id \in prevFailed =>
                  \E k \in 1..Len(log) :
                      log[k].id = integrations[i].id /\ log[k].exchanges = 1

\* second run: an integration that failed its refresh in the first run fails
\* it again, and the integration after it yields a message
C9_Witness ==
    /\ run.n = 2
    /\ pc = "finished"
    /\ \E k \in 1..Len(log) :
         /\ log[k].id \in prevFailed
         /\ log[k].refresh = "failed"
         /\ k < Len(log)
         /\ log[k + 1].yielded # <<>>

\* C10: update_last_sync is called for an integration exactly when its message
\* stream was consumed to exhaustion; never after a refresh failure, a failure
\* to connect or search, a mid-stream exception or an abandoned stream.
C10_SyncOnlyOnExhaustion ==
    \A k \in 1..Len(log) :
        log[k].synced = (IF log[k].ended = "exhausted" THEN 1 ELSE 0)

\* one integration consumed to exhaustion and marked, the next abandoned
\* after a message and not marked
C10_Witness ==
    \E j, k \in 1..Len(log) :
        /\ log[j].ended = "exhausted" /\ log[j].synced = 1
        /\ store[log[j].id].last_sync_at = now
        /\ log[k].ended = "abandoned" /\ log[k].yielded # <<>> /\ log[k].synced = 0

\* the entries of a failure list that stand for a run-level failure: they
\* carry the error and its traceback and no message fields
RunLevelEntries(failed) ==
    { i \in 1..Len(failed) : "subject" \notin DOMAIN failed[i] }

RaisedTurns == { k \in 1..Len(log) : log[k].ended = "raised" }

\* C15: in the result of a finished multi-account run every message that was
\* yielded and not turned into a transaction has one failure descriptor in
\* failed_emails, and errors = len(failed_emails)
C15_FailureDescriptors ==
    (pc = "finished") =>
        /\ runres.errors = Len(runres.failed_emails)
        /\ Len(runres.failed_emails) - Cardinality(RunLevelEntries(runres.failed_emails))
               = Len(NotParsing(Yielded(log)))

\* C16: in the result of a finished multi-account run every exception the
\* message stream raised (connect, login, search, fetch) has exactly one
\* run-level failure entry, and errors counts it once
C16_RunLevelFailure ==
    (pc = "finished") =>
        /\ Cardinality(RunLevelEntries(runres.failed_emails)) = Cardinality(RaisedTurns)
        /\ runres.errors = Len(NotParsing(Yielded(log))) + Cardinality(RaisedTurns)

\* C17: every record in the transactions list of a multi-account run has a
\* transaction number, a sender, a provider tag and an amount above zero
C17_ValidatedRecords ==
    \A i \in 1..Len(runres.transactions) :
        LET d == runres.transactions[i].data
        IN  /\ d.transaction_number # <<>>
            /\ d.sender # <<>>
            /\ d.source_provider # ""
            /\ d.amount # NoAmount
            /\ d.amount > 0

\* C18: every transaction of a multi-account run carries the id and the user
\* id of the integration whose mailbox yielded its message, and the row the
\* sink builds from it has that user id as user_id, created_by and updated_by
C18_OriginTagging ==
    /\ \A i \in 1..Len(runres.transactions) :
          LET t == runres.transactions[i]
          IN  \E k \in 1..Len(integrations) :
                 /\ integrations[k].id = t.integration_id
                 /\ integrations[k].user_id = t.integration_user_id
                 /\ Owner(t) = [user_id    |-> integrations[k].user_id,
                                created_by |-> integrations[k].user_id,
                                updated_by |-> integrations[k].user_id]
    /\ \A k \in 1..Len(log) :
          Cardinality({ i \in 1..Len(runres.transactions) :
                          runres.transactions[i].integration_id = log[k].id })
              = Cardinality({ i \in 1..Len(log[k].yielded) : Parses(log[k].yielded[i]) })

\* a finished run with transactions of two integrations
C18_Witness ==
    /\ pc = "finished"
    /\ \E i, j \in 1..Len(runres.transactions) :
          runres.transactions[i].integration_id # runres.transactions[j].integration_id

\* C21: in every run the integrations listed, and those a token refresh was
\* attempted for, a retriever was opened on or a message was yielded by, are
\* rows whose is_active is true; an inactive row is never written
C21_InactiveNeverRetrieved ==
    /\ \A k \in 1..Len(integrations) :
          /\ integrations[k].is_active
          /\ store[integrations[k].id].is_active
    /\ \A k \in 1..Len(log) : store[log[k].id].is_active
    /\ \A i \in 1..Len(store) :
          ~store[i].is_active =>
              /\ store[i].last_sync_at = NoTime
              /\ store[i].oauth_access_token = 1

\* a finished run over a store with an inactive row, in which a token was
\* exchanged and a message was yielded
C21_Witness ==
    /\ pc = "finished"
    /\ \E i \in 1..Len(store) : ~store[i].is_active /\ store[i].integration_type = "oauth"
    /\ \E k \in 1..Len(log) : log[k].exchanges = 1 /\ log[k].opened
    /\ \E k \in 1..Len(log) : log[k].yielded # <<>>

\* the fields _normalize_transaction_data gives every record it returns
CanonicalFields == {"recipient", "email_date", "email_date_source"}

\* C23: every record in the transactions list of a multi-account run is the
\* output of _normalize_transaction_data applied to what a parser returned:
\* it carries recipient, email_date and email_date_source
C23_StageOrder ==
    \A i \in 1..Len(runres.transactions) :
        CanonicalFields \subseteq DOMAIN runres.transactions[i].data

(***************************************************************************)
(* SpecSession: one entry point, from __enter__ to its return.             *)
(***************************************************************************)

InitSession ==
    /\ LimitIdle
    /\ SessionIdle
    /\ SinkIdle
    /\ BatchIdle
    /\ CoreIdle
    /\ NormIdle
    /\ SearchIdle

\* the entry point is called and enters the client
Enter ==
    /\ cpc = "idle"
    /\ \E e \in EntryPoints, outcome \in {"create_fails", "login_fails", "ok"} :
          LET en == __enter__(outcome)
              server == [imap EXCEPT !.opened = @ + en.opened]
              ex == __exit__(en._connection, server)
          IN  /\ entry_point' = e
              /\ IF ~en.raised
                 THEN /\ _connection' = en._connection
                      /\ imap' = server
                      /\ cpc' = "entered"
                 ELSE IF ExitAfterFailedEnter(e.holder)
                 THEN /\ _connection' = ex._connection
                      /\ imap' = ex.imap
                      /\ cpc' = "returned"
                 ELSE /\ _connection' = en._connection
                      /\ imap' = server
                      /\ cpc' = "returned"
    /\ UNCHANGED <<todo, yielded, coreVars, normVars, searchVars, sinkVars, batchVars, limitVars>>

\* the operation selects the mailbox and searches; a search that raises
\* ends the stream, or leaves the with block through __exit__
Search ==
    /\ cpc = "entered"
    /\ \E outcome \in {"select_fails", "search_raises", "ok"}, answer \in SearchAnswers :
          LET ex == __exit__(_connection, imap)
          IN  IF outcome = "ok"
              THEN /\ todo' = answer
                   /\ cpc' = "streaming"
                   /\ UNCHANGED <<_connection, imap>>
              ELSE IF outcome = "search_raises" /\ entry_point.operation \in RaisingOperations
              THEN /\ todo' = <<>>
                   /\ _connection' = ex._connection
                   /\ imap' = ex.imap
                   /\ cpc' = "returned"
              ELSE /\ todo' = <<>>
                   /\ cpc' = "streaming"
                   /\ UNCHANGED <<_connection, imap>>
    /\ UNCHANGED <<entry_point, yielded, coreVars, normVars, searchVars, sinkVars, batchVars, limitVars>>

\* the next message is fetched with (RFC822) and yielded; whether the
\* server flags a fetched message by itself is the server's choice
Fetch ==
    /\ cpc = "streaming"
    /\ todo # <<>>
    /\ \E outcome \in {"ok", "skipped"}, implicit \in BOOLEAN :
          IF outcome = "ok"
          THEN /\ yielded' = yielded \cup {Head(todo)}
               /\ imap' = mark_as_read(imap, Head(todo), implicit)
               /\ cpc' = "suspended"
               /\ todo' = todo
          ELSE /\ todo' = Tail(todo)
               /\ UNCHANGED <<yielded, imap, cpc>>
    /\ UNCHANGED <<_connection, entry_point, coreVars, normVars, searchVars, sinkVars, batchVars, limitVars>>

\* the consumer asks for the next message: the statement after the yield
Resume ==
    /\ cpc = "suspended"
    /\ \E ok \in BOOLEAN :
          imap' = IF entry_point.operation \in MarkingOperations
                  THEN mark_as_read(imap, Head(todo), ok)
                  ELSE imap
    /\ todo' = Tail(todo)
    /\ cpc' = "streaming"
    /\ UNCHANGED <<_connection, entry_point, yielded, coreVars, normVars, searchVars, sinkVars, batchVars, limitVars>>

\* the stream is exhausted, the block is left and the run returns
Leave ==
    /\ cpc = "streaming"
    /\ todo = <<>>
    /\ LET ex == __exit__(_connection, imap)
       IN  /\ _connection' = ex._connection
           /\ imap' = ex.imap
    /\ cpc' = "returned"
    /\ UNCHANGED <<entry_point, todo, yielded, coreVars, normVars, searchVars, sinkVars, batchVars, limitVars>>

NextSession == Enter \/ Search \/ Fetch \/ Resume \/ Leave

SpecSession == InitSession /\ [][NextSession]_vars

\* C11: when a run has returned, every connection that was opened has had
\* logout attempted and the client holds no connection
C11_SessionsReleased ==
    cpc = "returned" =>
        /\ imap.opened > 0 => imap.logout > 0
        /\ _connection = "none"

\* C12: when the stream of a retrieval operation is exhausted, every
\* message number it yielded carries \Seen
C12_SeenOnExhaustion ==
    cpc = "returned" => yielded \subseteq imap.seen

(***************************************************************************)
(* SpecSink: calls of insert_transactions and upsert_transactions on one   *)
(* table.                                                                  *)
(***************************************************************************)
InitSink ==
    /\ LimitIdle
    /\ SinkIdle
    /\ SessionIdle
    /\ BatchIdle
    /\ CoreIdle
    /\ NormIdle
    /\ SearchIdle

InsertTransactions ==
    /\ Len(sink_calls) < MaxSinkCalls
    /\ \E b \in Batches, schema_ok \in BOOLEAN :
          \E answers \in [1..Len(b) -> InsertAnswers] :
             \E out \in {insert_transactions(table, b, schema_ok, answers)} :
                /\ table' = out.table
                /\ sink_calls' = Append(sink_calls,
                       [op |-> "insert", batch |-> b, before |-> table,
                        after |-> out.table, summary |-> out.summary,
                        trace |-> out.trace, tested |-> out.tested])
    /\ UNCHANGED <<coreVars, normVars, searchVars, clientVars, batchVars, limitVars>>

UpsertTransactions ==
    /\ Len(sink_calls) < MaxSinkCalls
    /\ \E b \in Batches, ok \in BOOLEAN :
          \E out \in {upsert_transactions(table, b, ok)} :
             /\ table' = out.table
             /\ sink_calls' = Append(sink_calls,
                    [op |-> "upsert", batch |-> b, before |-> table,
                     after |-> out.table, summary |-> out.summary,
                     trace |-> <<>>, tested |-> FALSE])
    /\ UNCHANGED <<coreVars, normVars, searchVars, clientVars, batchVars, limitVars>>

NextSink == InsertTransactions \/ UpsertTransactions

SpecSink == InitSink /\ [][NextSink]_vars

InsertCalls == { i \in 1..Len(sink_calls) : sink_calls[i].op = "insert" }

\* the calls whose loop ran: a non-empty batch and a passed access test
LoopCalls ==
    { i \in InsertCalls : sink_calls[i].batch # <<>> /\ sink_calls[i].trace # <<>> }

CountOf(trace, class) == Cardinality({ k \in 1..Len(trace) : trace[k].class = class })

InvalidRow(row) ==
    row.user_id = 0 \/ row.amount_paid = NoAmount \/ row.amount_paid <= 0

\* C13: for every batch given to insert_transactions the three counts add
\* up to the batch size; each record is inserted, duplicate or error; a
\* failed insert with the uniqueness signature is a duplicate without an
\* error detail, any other failure an error with a reason, and a record
\* without user id or without a positive amount is an error for which no
\* insert is issued
C13_SinkClassification ==
    /\ \A i \in InsertCalls :
          LET c == sink_calls[i]
              s == c.summary
          IN  /\ s.inserted_count + s.duplicate_count + s.error_count = Len(c.batch)
              /\ \A k \in 1..Len(s.errors) : s.errors[k].error # ""
    /\ \A i \in LoopCalls :
          LET c == sink_calls[i]
              s == c.summary
          IN  /\ Len(c.trace) = Len(c.batch)
              /\ s.inserted_count = CountOf(c.trace, "inserted")
              /\ s.duplicate_count = CountOf(c.trace, "duplicate")
              /\ s.error_count = CountOf(c.trace, "error")
              /\ Len(s.errors) = s.error_count
              /\ \A k \in 1..Len(c.trace) :
                    LET e == c.trace[k]
                    IN  /\ e.row = transaction_data(c.batch[k])
                        /\ e.class \in {"inserted", "duplicate", "error"}
                        /\ (e.issued /\ e.raised \in UniquenessSignatures)
                              => e.class = "duplicate"
                        /\ (e.issued /\ e.raised # "" /\ e.raised \notin UniquenessSignatures)
                              => e.class = "error"
                        /\ InvalidRow(e.row) => (e.class = "error" /\ ~e.issued)

\* a call that meets a duplicate, a failing insert and a refused record
C13_Witness ==
    \E i \in LoopCalls :
       LET t == sink_calls[i].trace
       IN  /\ \E k \in 1..Len(t) : t[k].class = "duplicate"
           /\ \E k \in 1..Len(t) : ~t[k].issued

\* the store answered every request of the call: the access test passed and
\* every insert either stored the row and returned it or was refused for
\* uniqueness
Answered(c) ==
    /\ c.op = "insert"
    /\ c.batch # <<>> => c.trace # <<>>
    /\ \A k \in 1..Len(c.trace) :
          c.trace[k].issued =>
              \/ c.trace[k].raised = UniqueViolation
              \/ c.trace[k].raised = "" /\ c.trace[k].data

SameBatchTwice(i) ==
    /\ i + 1 <= Len(sink_calls)
    /\ sink_calls[i].op = "insert"
    /\ sink_calls[i + 1].op = "insert"
    /\ sink_calls[i].batch = sink_calls[i + 1].batch

SecondCallIsIdle(i) ==
    LET c1 == sink_calls[i]
        c2 == sink_calls[i + 1]
    IN  /\ c2.after = c1.after
        /\ c2.summary.inserted_count = 0
        /\ \A k \in 1..Len(c1.trace) :
              c1.trace[k].class = "inserted" =>
                  /\ k <= Len(c2.trace)
                  /\ c2.trace[k].class = "duplicate"

TableUnique == \A r1, r2 \in table : KeyOf(r1) = KeyOf(r2) => r1 = r2

InitBatch ==
    /\ LimitIdle
    /\ accounts \in AccountLists
    /\ boxes \in [1..Len(accounts) -> SUBSET Senders]
    /\ bpos = 1
    /\ all_results = NoBatchResults
    /\ searched = <<>>
    /\ SessionIdle
    /\ SinkIdle
    /\ CoreIdle
    /\ NormIdle
    /\ SearchIdle

\* one iteration of the loop over the integrations
DailySyncStep ==
    /\ all_results.message = ""
    /\ bpos <= Len(accounts)
    /\ \E out \in {daily_sync_one(all_results, boxes, accounts, accounts[bpos])} :
          /\ all_results' = out.results
          /\ searched' = searched \o out.searched
    /\ bpos' = bpos + 1
    /\ UNCHANGED <<boxes, accounts, coreVars, normVars, searchVars, clientVars, sinkVars, limitVars>>

\* the loop is over, or there was no integration: the summary is returned
DailySyncReturn ==
    /\ all_results.message = ""
    /\ bpos > Len(accounts)
    /\ all_results' = [all_results EXCEPT !.message =
                          IF accounts = <<>> THEN "No active OAuth integrations found"
                          ELSE "Daily batch complete"]
    /\ UNCHANGED <<boxes, accounts, bpos, searched, coreVars, normVars, searchVars, clientVars, sinkVars, limitVars>>

NextBatch == DailySyncStep \/ DailySyncReturn

SpecBatch == InitBatch /\ [][NextBatch]_vars

\* C19: in a batch_daily_sync run only an integration's own mailbox is
\* searched on its behalf, no mailbox is retrieved from twice, and the
\* emails an integration's result entry counts are those of its own
\* mailbox that come from its email_username
C19_BatchScoping ==
    /\ \A k \in 1..Len(searched) : searched[k].mailbox = searched[k].for
    /\ \A j, k \in 1..Len(searched) :
          searched[j].mailbox = searched[k].mailbox => j = k
    /\ \A k \in 1..Len(all_results.integration_results) :
          LET e == all_results.integration_results[k]
          IN  "emails_processed" \in DOMAIN e =>
                  e.emails_processed =
                      IF e.email_username \in boxes[e.integration_id] THEN 1 ELSE 0

(***************************************************************************)
(* SpecLimit: one request to a sync-by-sender endpoint over one mailbox.   *)
(***************************************************************************)
InitLimit ==
    /\ matching \in 0..MaxMatching
    /\ endpoint \in SyncEndpoints
    /\ limit \in 0..MaxLimit
    /\ fetched = NotFetched
    /\ SessionIdle
    /\ SinkIdle
    /\ BatchIdle
    /\ CoreIdle
    /\ NormIdle
    /\ SearchIdle

\* the request is served: the integration's mailbox is searched
SyncBySender ==
    /\ fetched = NotFetched
    /\ fetched' = search_emails_by_sender(endpoint, matching, LimitOf(endpoint, limit))
    /\ UNCHANGED <<matching, limit, endpoint, coreVars, normVars, searchVars, clientVars, sinkVars, batchVars>>

NextLimit == SyncBySender

SpecLimit == InitLimit /\ [][NextLimit]_vars

\* C20: when the limit is 0 or absent, every matching email of the mailbox
\* is retrieved, however many there are
C20_LimitZeroMeansAll ==
    (fetched # NotFetched /\ LimitOf(endpoint, limit) = 0) => fetched = matching

(***************************************************************************)
(* SpecSearch: one retrieval call over one mailbox.                        *)
(***************************************************************************)

InitSearch ==
    /\ mailbox \in Mailboxes
    /\ search = NoSearch
    /\ SessionIdle
    /\ SinkIdle
    /\ BatchIdle
    /\ LimitIdle
    /\ CoreIdle
    /\ NormIdle

\* the operations of EmailClient that take a limit
LimitOperations ==
    {"fetch_unread_emails", "fetch_emails_by_sender", "search_emails_by_subject",
     "search_emails_by_content", "search_emails_by_sender"}

LimitedOperation(operation, box, lim) ==
    CASE operation = "fetch_unread_emails" -> fetch_unread_emails(box, lim)
      [] operation = "fetch_emails_by_sender" -> fetch_emails_by_sender(box, SearchSender, lim)
      [] operation = "search_emails_by_subject" -> search_emails_by_subject(box, "Payment", lim)
      [] operation = "search_emails_by_content" -> search_emails_by_content(box, "Payment", lim)
      [] OTHER -> imap_search_emails_by_sender(box, SearchSender, lim)

\* the pairs of a start date and an end date, or none, not before it
DateRanges ==
    { r \in SearchDays \X (SearchDays \cup {NoDate}) : r[2] = NoDate \/ r[1] <= r[2] }

\* an operation of EmailClient is consumed to its end with limit lim, 0 for
\* no limit
LimitedRetrieval ==
    /\ search.op = "none"
    /\ \E operation \in LimitOperations, lim \in 0..MaxLimit :
          \E out \in {LimitedOperation(operation, mailbox, lim)} :
             search' = [NoSearch EXCEPT !.op = operation, !.sender = SearchSender,
                                        !.limit = lim, !.connected = TRUE,
                                        !.sent = out.sent, !.fetched = out.fetched,
                                        !.yielded = out.yielded]
    /\ UNCHANGED <<mailbox, coreVars, normVars, clientVars, sinkVars, batchVars, limitVars>>

\* EmailClient.search_emails_by_sender_date_range is consumed to its end
ImapDateRange ==
    /\ search.op = "none"
    /\ \E r \in DateRanges :
          \E out \in {imap_search_emails_by_sender_date_range(mailbox, SearchSender, r[1], r[2])} :
             search' = [NoSearch EXCEPT !.op = "imap_search_emails_by_sender_date_range",
                                        !.sender = SearchSender,
                                        !.start_date = r[1], !.end_date = r[2],
                                        !.connected = TRUE,
                                        !.sent = out.sent, !.fetched = out.fetched,
                                        !.yielded = out.yielded]
    /\ UNCHANGED <<mailbox, coreVars, normVars, clientVars, sinkVars, batchVars, limitVars>>

\* GmailAPIClient.search_emails_by_sender_date_range is consumed to its end
GmailDateRange ==
    /\ search.op = "none"
    /\ \E r \in DateRanges, lim \in 0..MaxLimit :
          \E out \in {gmail_search_emails_by_sender_date_range(mailbox, SearchSender,
                                                               r[1], r[2], lim)} :
             search' = [NoSearch EXCEPT !.op = "gmail_search_emails_by_sender_date_range",
                                        !.sender = SearchSender,
                                        !.start_date = r[1], !.end_date = r[2],
                                        !.limit = lim, !.connected = TRUE,
                                        !.sent = out.sent, !.fetched = out.fetched,
                                        !.yielded = out.yielded,
                                        !.fallback = out.fallback]
    /\ UNCHANGED <<mailbox, coreVars, normVars, clientVars, sinkVars, batchVars, limitVars>>

\* the arguments process_integration_emails is called with: a start and an
\* end date, a limit only, or neither
ManualArguments ==
    { [start_date |-> r[1], end_date |-> r[2], limit |-> 0] :
          r \in { x \in DateRanges : x[2] # NoDate } }
      \cup { [start_date |-> NoDate, end_date |-> NoDate, limit |-> lim] : lim \in 0..MaxLimit }

\* process_integration_emails on a manual integration is consumed to its end
ProcessManualIntegration ==
    /\ search.op = "none"
    /\ \E integ \in ManualIntegrations, a \in ManualArguments, connect_ok \in BOOLEAN :
          \E out \in {manual_process_integration_emails(mailbox, integ, SearchSender,
                          a.start_date, a.end_date, a.limit, connect_ok)} :
             search' = [NoSearch EXCEPT !.op = "process_integration_emails",
                                        !.sender = SearchSender,
                                        !.start_date = a.start_date, !.end_date = a.end_date,
                                        !.limit = a.limit, !.integration = integ,
                                        !.connected = connect_ok,
                                        !.session = out.session,
                                        !.sent = out.sent, !.fetched = out.fetched,
                                        !.yielded = out.yielded]
    /\ UNCHANGED <<mailbox, coreVars, normVars, clientVars, sinkVars, batchVars, limitVars>>

NextSearch ==
    \/ LimitedRetrieval
    \/ ImapDateRange
    \/ GmailDateRange
    \/ ProcessManualIntegration

SpecSearch == InitSearch /\ [][NextSearch]_vars

\* the numbers of the messages of the mailbox a sender search has to return
FromSender(box, sender) ==
    SelectSeq([i \in 1..Len(box) |-> i], LAMBDA i : box[i].from = sender)

\* what process_integration_emails has to yield for its arguments: the
\* answer of the date-range search, the last limit messages of the sender,
\* or all of them
ManualExpected ==
    IF search.start_date # NoDate
    THEN imap_search_emails_by_sender_date_range(mailbox, search.sender,
                                                 search.start_date, search.end_date).yielded
    ELSE IF search.limit # 0 THEN LastN(FromSender(mailbox, search.sender), search.limit)
    ELSE FromSender(mailbox, search.sender)

\* C24: process_integration_emails on a manual integration opens the session
\* with the integration's own server, port, ssl flag, username and secret
\* and, once connected, yields the messages the search returns, with a start
\* and an end date, with a limit only and with neither
C24_ManualIntegration ==
    (search.op = "process_integration_emails") =>
        /\ search.session = [server   |-> search.integration.email_server,
                             port     |-> search.integration.email_port,
                             use_ssl  |-> search.integration.email_use_ssl,
                             username |-> search.integration.email_username,
                             password |-> search.integration.email_key]
        /\ search.connected => search.yielded = ManualExpected

\* C25: when the search of an operation that was given a limit N returned
\* more than N numbers, the numbers fetched are the last N of them, in
\* ascending order
C25_TailLimit ==
    (search.op \in LimitOperations /\ search.limit > 0) =>
        LET answer == ImapSearch(mailbox, search.sent[1])
            n == search.limit
        IN  Len(answer) > n =>
               search.fetched = [k \in 1..n |-> answer[Len(answer) - n + k]]

\* the calendar dates of the days of the model and of the days after them,
\* as year, month, day
CalendarDate ==
    [n \in ServerDays |->
        CASE n = 364 -> <<2023, 12, 31>>
          [] n = 365 -> <<2024, 1, 1>>
          [] n = 366 -> <<2024, 1, 2>>
          [] n = 424 -> <<2024, 2, 29>>
          [] n = 425 -> <<2024, 3, 1>>
          [] n = 516 -> <<2024, 5, 31>>
          [] n = 517 -> <<2024, 6, 1>>
          [] OTHER   -> <<2024, 6, 2>>]

\* a date written DD-Mon-YYYY
DayMonYear(n) ==
    <<CalendarDate[n][3], MonthAbbr[CalendarDate[n][2]], CalendarDate[n][1]>>

\* the messages of the sender dated from the start day to the end day, both
\* included, or from the start day on
InRange(box, sender, start_date, end_date) ==
    SelectSeq([i \in 1..Len(box) |-> i],
              LAMBDA i : /\ box[i].from = sender
                         /\ box[i].day >= start_date
                         /\ end_date # NoDate => box[i].day <= end_date)

\* C26: the IMAP date-range search sends FROM "<sender>" SINCE <start as
\* DD-Mon-YYYY>, without a BEFORE term when no end date is given and with
\* BEFORE <the day after the end date> otherwise, and yields the sender's
\* messages dated from the start day to the end day, both included
C26_ImapDateCriteria ==
    (search.op = "imap_search_emails_by_sender_date_range") =>
        LET c == search.sent[1]
        IN  /\ Len(search.sent) = 1
            /\ c.key = "FROM" /\ c.text = search.sender
            /\ c.since = DayMonYear(search.start_date)
            /\ (search.end_date = NoDate) => c.before = NoTerm
            /\ (search.end_date # NoDate) => c.before = DayMonYear(NextDay(search.end_date))
            /\ search.yielded = InRange(mailbox, search.sender, search.start_date,
                                        search.end_date)

\* a date written YYYY/MM/DD
YearMonthDay(n) == CalendarDate[n]

\* the messages of the sender dated on one day, newest first
OnDay(box, sender, day) ==
    Reverse(SelectSeq([i \in 1..Len(box) |-> i],
                      LAMBDA i : box[i].from = sender /\ box[i].day = day))

\* C27: for a start and an end on the same day D the Gmail date-range search
\* issues from:<sender> after:<D> before:<D plus one day>, both written
\* YYYY/MM/DD, and yields messages dated on D only (the newest limit of
\* them), never those the query without dates returned
C27_GmailSameDay ==
    (search.op = "gmail_search_emails_by_sender_date_range"
        /\ search.start_date = search.end_date) =>
        LET q == search.sent[1]
            found == OnDay(mailbox, search.sender, search.start_date)
        IN  /\ q = Query(search.sender, YearMonthDay(search.start_date),
                         YearMonthDay(search.start_date + 1))
            /\ search.yielded = IF search.limit # 0 THEN FirstN(found, search.limit)
                                ELSE found
            /\ (found = <<>>) =>
                  /\ search.yielded = <<>>
                  /\ search.sent = <<q, Query(search.sender, NoTerm, NoTerm)>>

\* a same-day search on 2023-12-31 or on 2024-06-01 in a mailbox that holds
\* no message of that day but others of the sender: the query without dates
\* is sent and finds them, and nothing is yielded
C27_Witness ==
    /\ search.op = "gmail_search_emails_by_sender_date_range"
    /\ search.start_date = search.end_date
    /\ search.start_date \in {364, 517}
    /\ search.sent[1].before \in {<<2024, 1, 1>>, <<2024, 6, 2>>}
    /\ search.fallback # <<>>
    /\ search.yielded = <<>>

(***************************************************************************)
(* SpecNormalize: one call of _normalize_transaction_data.                 *)
(***************************************************************************)

InitNormalize ==
    /\ normalized = NoNormalized
    /\ SessionIdle
    /\ SinkIdle
    /\ BatchIdle
    /\ LimitIdle
    /\ SearchIdle
    /\ CoreIdle

\* the Normalizer is called on a parser's output and its message
Normalize ==
    /\ ~normalized.called
    /\ \E transaction_date \in ParserStamps \cup {Unparsed}, key \in EmailDateKeys,
          raw_date \in HeaderStamps, header_date \in HeaderStamps :
          \E out \in {normalize_email_date(transaction_date, key, raw_date, header_date)} :
             normalized' = [called |-> TRUE, transaction_date |-> transaction_date, key |-> key,
                            raw_date |-> raw_date, header_date |-> header_date,
                            email_date |-> out.email_date,
                            email_date_source |-> out.email_date_source]
    /\ UNCHANGED <<coreVars, clientVars, sinkVars, batchVars, limitVars, searchVars>>

NextNormalize == Normalize

SpecNormalize == InitNormalize /\ [][NextNormalize]_vars

\* the timestamp the parser produced, if any: the first of transaction_date
\* and email_date that spells one
ParserProduced ==
    IF normalized.transaction_date \notin {NoStamp, Unparsed} THEN normalized.transaction_date
    ELSE IF normalized.key \notin {NoStamp, Unparsed} THEN normalized.key
    ELSE NoStamp

\* the timestamp found in the headers, if any
HeaderFound ==
    IF normalized.raw_date # NoStamp THEN normalized.raw_date ELSE normalized.header_date

\* C28: the Normalizer sets email_date to the header timestamp exactly when
\* one is found and the parser gave no timestamp or one at 00:00:00, and
\* keeps the parser's value otherwise; email_date_source is 'raw_headers'
\* exactly when the header timestamp was chosen, 'parsed' exactly when the
\* parser's value was kept, and None exactly when there is no timestamp
C28_TimestampChoice ==
    normalized.called =>
        LET header == HeaderFound
            wanted == /\ header # NoStamp
                      /\ \/ ParserProduced = NoStamp
                         \/ ParserProduced.time = 0
        IN  /\ wanted => normalized.email_date = header
            /\ ~wanted => normalized.email_date = ParserProduced
            /\ (normalized.email_date_source = "raw_headers") <=> wanted
            /\ (normalized.email_date_source = "parsed") <=>
                   (~wanted /\ ParserProduced # NoStamp)
            /\ (normalized.email_date_source = "None") <=>
                   (header = NoStamp /\ ParserProduced = NoStamp)

\* the parser gave a date at midnight and a header timestamp of another day
\* was found: the header timestamp is chosen
C28_Witness ==
    /\ normalized.called
    /\ ParserProduced # NoStamp /\ ParserProduced.time = 0
    /\ HeaderFound # NoStamp /\ HeaderFound.day # ParserProduced.day
    /\ normalized.email_date = HeaderFound
    /\ normalized.email_date_source = "raw_headers"

====
